---- MODULE Spec2Model ----
(***************************************************************************)
(* Pseudocode language: bytecode compiler (src/src/compiler.py) and        *)
(* stack-based virtual machine (src/src/vm.py).                            *)
(*                                                                         *)
(* The compiler is a family of pure operators from AST records to Chunk    *)
(* records; the VM is a state machine with one action per opcode handler   *)
(* of VM.run.  Offsets, slots and constant indices are 0-based as in the   *)
(* source; TLA+ sequences are 1-based, so element k of a Python list is    *)
(* element k + 1 of the sequence that models it.                           *)
(***************************************************************************)
EXTENDS Integers, Sequences, FiniteSets, TLC

(***************************************************************************)
(* Bounds of the model.                                                    *)
(***************************************************************************)
\* Capacity of the value stack.  The source allocates 65536 entries
\* (vm.py:59); the model keeps the same fixed-capacity list with fewer
\* entries so that exhausting it is reachable.
STACK_SIZE == 12
\* VM.MAX_FRAMES, 1024 in the source (vm.py:60), where 32767 frames of a
\* one-argument function fit in the value stack; the model keeps it below
\* the number of frames that fit in its stack.  No handler reads it.
MAX_FRAMES == 3
\* Largest end of a literal range `0..n` in the loop programs.
MaxRange == 2
\* Largest number of top-level function declarations in the declaration
\* programs.
MaxFns == 2
\* Largest magnitude of the index in the indexing programs.
MaxIndex == 5
\* Largest length of the texts made of every combination of characters.
MaxSourceLen == 3
\* Largest magnitude of the operands in the division programs.
MaxOperand == 7

(***************************************************************************)
(* Runtime values.  A value is a record whose field t is the name of its   *)
(* Python type; i carries an integer payload (int, bool as 0/1, heap       *)
(* address of a list or iterator), s a string payload.  A compiled         *)
(* function carries its CompiledFunction record in the extra field fn.     *)
(***************************************************************************)
PyNone == [t |-> "NoneType", i |-> 0, s |-> ""]

PyInt(n) == [t |-> "int", i |-> n, s |-> ""]

PyBool(b) == [t |-> "bool", i |-> IF b THEN 1 ELSE 0, s |-> ""]

PyStr(x) == [t |-> "str", i |-> 0, s |-> x]

\* A float is carried as the numeral it was read from.
PyFloat(x) == [t |-> "float", i |-> 0, s |-> x]

Fn(f) == [t |-> "CompiledFunction", i |-> 0, s |-> f.name, fn |-> f]

HostCallable(name) == [t |-> "method", i |-> 0, s |-> name]

ListRef(a) == [t |-> "list", i |-> a, s |-> ""]

RangeIteratorRef(a) == [t |-> "RangeIterator", i |-> a, s |-> ""]

ArrayIteratorRef(a) == [t |-> "ArrayIterator", i |-> a, s |-> ""]

(***************************************************************************)
(* compiler.py: OpCode (IntEnum, auto() numbers from 1).                   *)
(***************************************************************************)
OpCode ==
    [CONST |-> 1, TRUE |-> 2, FALSE |-> 3,
     LOAD |-> 4, STORE |-> 5, LOAD_GLOBAL |-> 6, STORE_GLOBAL |-> 7,
     ADD |-> 8, SUB |-> 9, MUL |-> 10, DIV |-> 11, MOD |-> 12, NEG |-> 13,
     EQ |-> 14, NEQ |-> 15, LT |-> 16, GT |-> 17, LTE |-> 18, GTE |-> 19,
     NOT |-> 20,
     BAND |-> 21, BOR |-> 22, BXOR |-> 23, SHL |-> 24, SHR |-> 25,
     JMP |-> 26, JMP_IF_FALSE |-> 27, JMP_IF_TRUE |-> 28,
     CALL |-> 29, RET |-> 30,
     ARRAY |-> 31, INDEX |-> 32, INDEX_SET |-> 33,
     POP |-> 34, DUP |-> 35,
     PRINT |-> 36, LEN |-> 37, PUSH |-> 38, POP_ARRAY |-> 39,
     TIME |-> 40, INPUT |-> 41,
     ITER |-> 42, ITER_NEXT |-> 43,
     HALT |-> 44]

(***************************************************************************)
(* ast_nodes.py: the node classes, as records tagged by class name.  The   *)
(* column of a node is not read by the compiler and is left out.           *)
(***************************************************************************)
IntLiteral(value, line) == [kind |-> "IntLiteral", value |-> value, line |-> line]

FloatLiteral(value, line) ==
    [kind |-> "FloatLiteral", value |-> value, line |-> line]

StringLiteral(value, line) == [kind |-> "StringLiteral", value |-> value, line |-> line]

BoolLiteral(value, line) == [kind |-> "BoolLiteral", value |-> value, line |-> line]

Identifier(name, line) == [kind |-> "Identifier", name |-> name, line |-> line]

BinaryExpr(op, left, right, line) ==
    [kind |-> "BinaryExpr", op |-> op, left |-> left, right |-> right, line |-> line]

UnaryExpr(op, operand, line) ==
    [kind |-> "UnaryExpr", op |-> op, operand |-> operand, line |-> line]

CallExpr(callee, args, line) ==
    [kind |-> "CallExpr", callee |-> callee, args |-> args, line |-> line]

IndexExpr(obj, index, line) ==
    [kind |-> "IndexExpr", obj |-> obj, index |-> index, line |-> line]

ArrayLiteral(elements, line) ==
    [kind |-> "ArrayLiteral", elements |-> elements, line |-> line]

RangeExpr(start, end, line) ==
    [kind |-> "RangeExpr", start |-> start, end |-> end, line |-> line]

VarDecl(name, value, is_const, line) ==
    [kind |-> "VarDecl", name |-> name, value |-> value, is_const |-> is_const,
     line |-> line]

Assignment(target, value, line) ==
    [kind |-> "Assignment", target |-> target, value |-> value, line |-> line]

IfStmt(condition, then_body, elif_clauses, else_body, line) ==
    [kind |-> "IfStmt", condition |-> condition, then_body |-> then_body,
     elif_clauses |-> elif_clauses, else_body |-> else_body, line |-> line]

WhileStmt(condition, body, line) ==
    [kind |-> "WhileStmt", condition |-> condition, body |-> body, line |-> line]

ForStmt(var_name, iterable, body, line) ==
    [kind |-> "ForStmt", var_name |-> var_name, iterable |-> iterable,
     body |-> body, line |-> line]

\* ReturnStmt.value is Optional: NoValue stands for Python's None.
NoValue == [kind |-> "None", line |-> 0]

ReturnStmt(value, line) == [kind |-> "ReturnStmt", value |-> value, line |-> line]

ExprStmt(expr, line) == [kind |-> "ExprStmt", expr |-> expr, line |-> line]

\* params is the sequence of parameter names (Param.name).
FnDecl(name, params, body, line) ==
    [kind |-> "FnDecl", name |-> name, params |-> params, body |-> body,
     line |-> line]

(***************************************************************************)
(* compile_program(source) runs the Lexer over the text, the Parser over   *)
(* the tokens and the Compiler over the statements.                        *)
(*   source   the text, a sequence of characters (never changes)           *)
(*   lexer    the Lexer's pos, line and col                                *)
(*   tokens   the tokens read so far                                       *)
(*   ast      Program.statements, once parsed                              *)
(* and run_repl reads lines and hands texts to execute:                    *)
(*   repl     the locals buffer, in_block and line of run_repl, and the    *)
(*            texts it has passed to execute, oldest first, with the       *)
(*            number of lines input() has returned                         *)
(* and Chunk.add_constant is called on its own:                            *)
(*   add_call the argument and the return value of the last call           *)
(***************************************************************************)
VARIABLES source, lexer, tokens, ast, repl, add_call

front == <<source, lexer, tokens, ast, repl, add_call>>

\* Chunk.add_constant has not been called
NoCall == [value |-> [t |-> "NoneType", i |-> 0, s |-> ""], idx |-> 0 - 1]

\* run_repl is not running
NoRepl == [buffer |-> <<>>, in_block |-> FALSE, line |-> <<>>,
           executed |-> <<>>, reads |-> 0]

(***************************************************************************)
(* lexer.py.  A text is the sequence of its characters, each a string of   *)
(* length 1; NUL stands for the character '\0', which Lexer.peek also      *)
(* returns beyond the end of the text.  A Lexer is the record of pos, line *)
(* and col; its text is the variable source.  A token type is the name of  *)
(* its TokenType member.                                                   *)
(***************************************************************************)
NUL == "NUL"

\* str.isdigit and str.isalpha, on the characters of the texts of the model
Digit == {"0", "1", "2", "3", "4", "5", "6", "7", "8", "9"}

Letter ==
    {"a", "b", "c", "d", "e", "f", "g", "h", "i", "j", "k", "l", "m", "n",
    "o", "p", "q", "r", "s", "t", "u", "v", "w", "x", "y", "z", "A", "B", "C",
    "D", "E", "F", "G", "H", "I", "J", "K", "L", "M", "N", "O", "P", "Q", "R",
    "S", "T", "U", "V", "W", "X", "Y", "Z"}

KEYWORDS ==
    ("let" :> "LET") @@ ("const" :> "CONST") @@ ("fn" :> "FN") @@ ("return" :>
    "RETURN") @@ ("if" :> "IF") @@ ("then" :> "THEN") @@ ("elif" :> "ELIF") @@
    ("else" :> "ELSE") @@ ("end" :> "END") @@ ("while" :> "WHILE") @@ ("for"
    :> "FOR") @@ ("in" :> "IN") @@ ("do" :> "DO") @@ ("and" :> "AND") @@ ("or"
    :> "OR") @@ ("not" :> "NOT") @@ ("true" :> "TRUE") @@ ("false" :> "FALSE")

\* A faulty table without the shift operators.
TWO_CHAR_OPS_no_shifts ==
    ("==" :> "EQ") @@ ("!=" :> "NEQ") @@ ("<=" :> "LTE") @@ (">=" :> "GTE") @@
    ("->" :> "ARROW") @@ (".." :> "RANGE")

TWO_CHAR_OPS ==
    ("==" :> "EQ") @@ ("!=" :> "NEQ") @@ ("<=" :> "LTE") @@ (">=" :> "GTE") @@
    ("->" :> "ARROW") @@ (".." :> "RANGE") @@ ("<<" :> "SHL") @@ (">>" :>
    "SHR")

SINGLE_CHAR_OPS ==
    ("+" :> "PLUS") @@ ("-" :> "MINUS") @@ ("*" :> "STAR") @@ ("/" :> "SLASH")
    @@ ("%" :> "PERCENT") @@ ("<" :> "LT") @@ (">" :> "GT") @@ ("=" :>
    "ASSIGN") @@ ("&" :> "BAND") @@ ("|" :> "BOR") @@ ("^" :> "BXOR") @@ ("("
    :> "LPAREN") @@ (")" :> "RPAREN") @@ ("[" :> "LBRACKET") @@ ("]" :>
    "RBRACKET") @@ ("," :> "COMMA") @@ (":" :> "COLON")

Token(type, value, line, col) ==
    [type |-> type, value |-> value, line |-> line, col |-> col]

\* Lexer.__init__
NewLexer == [pos |-> 0, line |-> 1, col |-> 1]

Lexer_peek(l, offset) ==
    IF l.pos + offset < Len(source) THEN source[l.pos + offset + 1] ELSE NUL

\* A faulty advance that does not reset the column at a newline.
Lexer_advance_keep_col(l) ==
    IF Lexer_peek(l, 0) = "\n"
    THEN [pos |-> l.pos + 1, line |-> l.line + 1, col |-> l.col + 1]
    ELSE [pos |-> l.pos + 1, line |-> l.line, col |-> l.col + 1]

Lexer_advance(l) ==
    IF Lexer_peek(l, 0) = "\n"
    THEN [pos |-> l.pos + 1, line |-> l.line + 1, col |-> 1]
    ELSE [pos |-> l.pos + 1, line |-> l.line, col |-> l.col + 1]

\* `while self.peek() in chars: self.advance()`
RECURSIVE skip_chars(_, _)
skip_chars(l, chars) ==
    IF Lexer_peek(l, 0) \in chars THEN skip_chars(Lexer_advance(l), chars)
    ELSE l

skip_whitespace(l) == skip_chars(l, {" ", "\t", "\r"})

\* the loop of a block comment and its closing `*/`; an unterminated
\* comment ends at the end of the text
RECURSIVE skip_block(_)
skip_block(l) ==
    IF Lexer_peek(l, 0) = "*" /\ Lexer_peek(l, 1) = "/"
    THEN Lexer_advance(Lexer_advance(l))
    ELSE IF Lexer_peek(l, 0) = NUL THEN l
    ELSE skip_block(Lexer_advance(l))

\* `while self.peek() not in ('\n', '\0'): self.advance()`
RECURSIVE skip_line(_)
skip_line(l) ==
    IF Lexer_peek(l, 0) \notin {"\n", NUL} THEN skip_line(Lexer_advance(l))
    ELSE l

skip_comment(l) ==
    IF Lexer_peek(l, 0) = "/" /\ Lexer_peek(l, 1) = "/" THEN skip_line(l)
    ELSE IF Lexer_peek(l, 0) = "/" /\ Lexer_peek(l, 1) = "*"
    THEN skip_block(Lexer_advance(Lexer_advance(l)))
    ELSE l

\* `while self.peek() == '/' and self.peek(1) in '/*': ...` of next_token
RECURSIVE skip_comments(_)
skip_comments(l) ==
    IF Lexer_peek(l, 0) = "/" /\ Lexer_peek(l, 1) \in {"/", "*"}
    THEN skip_comments(skip_whitespace(skip_comment(l)))
    ELSE l

\* What a method of the lexer returns: the lexer afterwards, the token, and
\* the name of the exception raised ("" if none).
Lexed(l, token) == [l |-> l, token |-> token, exc |-> ""]

LexerRaises(l, exc) ==
    [l |-> l, token |-> Token("ERROR", exc, l.line, l.col), exc |-> exc]

\* the escape table of read_string, `.get(escape, escape)`
Unescape(escape) ==
    CASE escape = "n" -> "\n"
      [] escape = "t" -> "\t"
      [] escape = "r" -> "\r"
      [] OTHER -> escape

\* ''.join(chars)
RECURSIVE join(_)
join(chars) == IF Len(chars) = 0 THEN "" ELSE Head(chars) \o join(Tail(chars))

\* the loop of read_string: the lexer at the closing quote or at the end of
\* the text, and the characters read
RECURSIVE string_chars(_, _, _)
string_chars(l, quote, chars) ==
    IF Lexer_peek(l, 0) # quote /\ Lexer_peek(l, 0) # NUL
    THEN IF Lexer_peek(l, 0) = "\\"
         THEN string_chars(Lexer_advance(Lexer_advance(l)), quote,
                           Append(chars, Unescape(Lexer_peek(Lexer_advance(l), 0))))
         ELSE string_chars(Lexer_advance(l), quote,
                           Append(chars, Lexer_peek(l, 0)))
    ELSE [l |-> l, chars |-> chars]

\* A faulty read_string: the error is reported at the opening quote, which is
\* not consumed.
read_string_unread(l) ==
    Lexed(l, Token("ERROR", "Unterminated string", l.line, l.col))

read_string(l) ==
    LET r == string_chars(Lexer_advance(l), Lexer_peek(l, 0), <<>>)
    IN  IF Lexer_peek(r.l, 0) = NUL
        THEN Lexed(r.l, Token("ERROR", "Unterminated string", l.line, l.col))
        ELSE Lexed(Lexer_advance(r.l),
                   Token("STRING", join(r.chars), l.line, l.col))

\* self.source[start:end].replace('_', ''), as a sequence of characters
RECURSIVE num_str(_, _)
num_str(start, end) ==
    IF start >= end \/ start >= Len(source) THEN <<>>
    ELSE (IF source[start + 1] = "_" THEN <<>> ELSE <<source[start + 1]>>)
         \o num_str(start + 1, end)

DigitValue ==
    ("0" :> 0) @@ ("1" :> 1) @@ ("2" :> 2) @@ ("3" :> 3) @@ ("4" :> 4) @@ ("5"
    :> 5) @@ ("6" :> 6) @@ ("7" :> 7) @@ ("8" :> 8) @@ ("9" :> 9) @@ ("a" :>
    10) @@ ("b" :> 11) @@ ("c" :> 12) @@ ("d" :> 13) @@ ("e" :> 14) @@ ("f" :>
    15) @@ ("A" :> 10) @@ ("B" :> 11) @@ ("C" :> 12) @@ ("D" :> 13) @@ ("E" :>
    14) @@ ("F" :> 15)

RECURSIVE digits_value(_, _, _)
\* A faulty conversion: the digits are taken as decimal whatever the base.
digits_value_decimal(digits, base, acc) ==
    IF Len(digits) = 0 THEN acc
    ELSE digits_value(Tail(digits), base, acc * 10 + DigitValue[Head(digits)])

digits_value(digits, base, acc) ==
    IF Len(digits) = 0 THEN acc
    ELSE digits_value(Tail(digits), base, acc * base + DigitValue[Head(digits)])

\* int(text, base) on a numeral read by read_number: the prefix of the base
\* if there is one, then at least one digit; [exc, value]
PyIntOf(text, prefix) ==
    IF Len(text) <= prefix THEN [exc |-> "ValueError", value |-> 0]
    ELSE [exc |-> "",
          value |-> digits_value(SubSeq(text, prefix + 1, Len(text)),
                                 CASE prefix = 0 -> 10
                                   [] text[2] \in {"x", "X"} -> 16
                                   [] text[2] \in {"b", "B"} -> 2
                                   [] OTHER -> 8,
                                 0)]

\* float(text) on a numeral read by read_number accepts digits, a fraction
\* and an exponent of at least one digit after its sign
PyFloatAccepts(text) ==
    LET exps == {i \in 1..Len(text) : text[i] \in {"e", "E"}}
    IN  exps = {}
        \/ LET e == CHOOSE i \in exps : \A j \in exps : i <= j
               first == IF e < Len(text) /\ text[e + 1] \in {"+", "-"}
                        THEN e + 2 ELSE e + 1
           IN  first <= Len(text) /\ \A k \in first..Len(text) : text[k] \in Digit

\* The decimal mantissa without trailing zeros, and the decimal exponent.
RECURSIVE Normalized(_, _)
Normalized(mantissa, exponent) ==
    IF mantissa = 0 THEN <<0, 0>>
    ELSE IF mantissa % 10 = 0 THEN Normalized(mantissa \div 10, exponent + 1)
    ELSE <<mantissa, exponent>>

\* the first index up to last at which text has one of chars, else last + 1
FirstIn(text, chars, last) ==
    LET at == {i \in 1..last : text[i] \in chars}
    IN  IF at = {} THEN last + 1 ELSE CHOOSE i \in at : \A j \in at : i <= j

\* e is the index of the exponent mark (beyond the text if none), d that of
\* the point (e if none)
FloatParts(text, e, d) ==
    LET fraction == SubSeq(text, d + 1, e - 1)
        signed == e < Len(text) /\ text[e + 1] \in {"+", "-"}
        exponent == digits_value(SubSeq(text, IF signed THEN e + 2 ELSE e + 1,
                                        Len(text)), 10, 0)
    IN  Normalized(digits_value(SubSeq(text, 1, d - 1) \o fraction, 10, 0),
                   (IF signed /\ text[e + 1] = "-" THEN 0 - exponent
                    ELSE exponent) - Len(fraction))

FloatMantissa(text, e) == FloatParts(text, e, FirstIn(text, {"."}, e - 1))

\* The value float(numeral) of a numeral read by read_number, written as
\* <mantissa>e<exponent> with a mantissa that has no trailing zeros: two
\* numerals of the texts of the model are the same float exactly when these
\* are equal.
FloatValue(numeral) ==
    LET text == [i \in 1..Len(numeral) |-> SubSeq(numeral, i, i)]
        value == FloatMantissa(text, FirstIn(text, {"e", "E"}, Len(text)))
    IN  ToString(value[1]) \o "e" \o ToString(value[2])

\* the hex/binary/octal branch of read_number, l after the prefix
read_based(l, start, digits) ==
    LET l1 == skip_chars(l, digits \cup {"_"})
        n == PyIntOf(num_str(start.pos, l1.pos), 2)
    IN  IF n.exc # "" THEN LexerRaises(l1, n.exc)
        ELSE Lexed(l1, Token("INT", n.value, start.line, start.col))

read_number(l) ==
    IF Lexer_peek(l, 0) = "0" /\ Lexer_peek(l, 1) \in {"x", "X"}
    THEN read_based(Lexer_advance(Lexer_advance(l)), l,
                    Digit \cup {"a", "b", "c", "d", "e", "f",
                                "A", "B", "C", "D", "E", "F"})
    ELSE IF Lexer_peek(l, 0) = "0" /\ Lexer_peek(l, 1) \in {"b", "B"}
    THEN read_based(Lexer_advance(Lexer_advance(l)), l, {"0", "1", "_"})
    ELSE IF Lexer_peek(l, 0) = "0" /\ Lexer_peek(l, 1) \in {"o", "O"}
    THEN read_based(Lexer_advance(Lexer_advance(l)), l,
                    {"0", "1", "2", "3", "4", "5", "6", "7"})
    ELSE
        LET l1 == skip_chars(l, Digit \cup {"_"})
            fraction == Lexer_peek(l1, 0) = "." /\ Lexer_peek(l1, 1) \in Digit
            l2 == IF fraction THEN skip_chars(Lexer_advance(l1), Digit \cup {"_"})
                  ELSE l1
            exponent == Lexer_peek(l2, 0) \in {"e", "E"}
            l3 == IF exponent THEN Lexer_advance(l2) ELSE l2
            l4 == IF exponent /\ Lexer_peek(l3, 0) \in {"+", "-"}
                  THEN Lexer_advance(l3) ELSE l3
            l5 == IF exponent THEN skip_chars(l4, Digit) ELSE l4
            text == num_str(l.pos, l5.pos)
        IN  IF fraction \/ exponent
            THEN IF PyFloatAccepts(text)
                 THEN Lexed(l5, Token("FLOAT", FloatValue(join(text)), l.line, l.col))
                 ELSE LexerRaises(l5, "ValueError")
            ELSE Lexed(l5, Token("INT", PyIntOf(text, 0).value, l.line, l.col))

\* self.source[start:end]
RECURSIVE source_text(_, _)
source_text(start, end) ==
    IF start >= end THEN "" ELSE source[start + 1] \o source_text(start + 1, end)

read_identifier(l) ==
    LET l1 == skip_chars(l, Letter \cup Digit \cup {"_"})
        text == source_text(l.pos, l1.pos)
    IN  Lexed(l1, Token(IF text \in DOMAIN KEYWORDS THEN KEYWORDS[text]
                        ELSE "IDENT",
                        text, l.line, l.col))

\* Lexer.next_token, from the lexer l0
next_token(l0) ==
    LET l == skip_comments(skip_whitespace(l0))
        ch == Lexer_peek(l, 0)
        two_char == ch \o Lexer_peek(l, 1)
    IN  CASE ch = NUL -> Lexed(l, Token("EOF", "", l.line, l.col))
          [] ch = "\n" -> Lexed(Lexer_advance(l), Token("NEWLINE", "\n", l.line, l.col))
          [] ch \in {"\"", "'"} -> read_string(l)
          [] ch \in Digit -> read_number(l)
          [] ch \in Letter \cup {"_"} -> read_identifier(l)
          [] two_char \in DOMAIN TWO_CHAR_OPS ->
                Lexed(Lexer_advance(Lexer_advance(l)),
                      Token(TWO_CHAR_OPS[two_char], two_char, l.line, l.col))
          [] ch \in DOMAIN SINGLE_CHAR_OPS ->
                Lexed(Lexer_advance(l),
                      Token(SINGLE_CHAR_OPS[ch], ch, l.line, l.col))
          [] OTHER ->
                Lexed(Lexer_advance(l),
                      Token("ERROR", "Unexpected character: " \o ch, l.line, l.col))

(***************************************************************************)
(* parser.py.  A Parser is its pos; its tokens are the variable tokens.    *)
(* A parse method returns the record of what it did: err tells whether it  *)
(* raised ParseError(message, token), else pos is the parser's position    *)
(* afterwards and node what the method returned.                           *)
(***************************************************************************)
\* A faulty table: every operator on one level.
PRECEDENCE_flat ==
    [type \in {"OR", "AND", "BOR", "BXOR", "BAND", "EQ", "NEQ", "LT", "GT",
                "LTE", "GTE", "SHL", "SHR", "PLUS", "MINUS", "STAR", "SLASH",
                "PERCENT"} |-> 1]

PRECEDENCE ==
    ("OR" :> 1) @@ ("AND" :> 2) @@ ("BOR" :> 3) @@ ("BXOR" :> 4)
    @@ ("BAND" :> 5) @@ ("EQ" :> 6) @@ ("NEQ" :> 6)
    @@ ("LT" :> 7) @@ ("GT" :> 7) @@ ("LTE" :> 7) @@ ("GTE" :> 7)
    @@ ("SHL" :> 8) @@ ("SHR" :> 8) @@ ("PLUS" :> 9) @@ ("MINUS" :> 9)
    @@ ("STAR" :> 10) @@ ("SLASH" :> 10) @@ ("PERCENT" :> 10)

BINOP_MAP ==
    ("PLUS" :> "ADD") @@ ("MINUS" :> "SUB") @@ ("STAR" :> "MUL")
    @@ ("SLASH" :> "DIV") @@ ("PERCENT" :> "MOD") @@ ("EQ" :> "EQ")
    @@ ("NEQ" :> "NEQ") @@ ("LT" :> "LT") @@ ("GT" :> "GT")
    @@ ("LTE" :> "LTE") @@ ("GTE" :> "GTE") @@ ("AND" :> "AND")
    @@ ("OR" :> "OR") @@ ("BAND" :> "BAND") @@ ("BOR" :> "BOR")
    @@ ("BXOR" :> "BXOR") @@ ("SHL" :> "SHL") @@ ("SHR" :> "SHR")

Parsed(pos, node) ==
    [err |-> FALSE, pos |-> pos, node |-> node, message |-> "",
     token |-> Token("EOF", "", 0, 0)]

\* raise ParseError(message, token)
ParseError(message, token) ==
    [err |-> TRUE, pos |-> 0, node |-> NoValue, message |-> message,
     token |-> token]

\* `r = method(); K(r)`: what follows a call runs unless the call raised
Then(r, K(_)) == IF r.err THEN r ELSE K(r)

\* Parser.peek(0): the last token (EOF) beyond the end
Parser_current(pos) ==
    IF pos >= Len(tokens) THEN tokens[Len(tokens)] ELSE tokens[pos + 1]

\* the position after Parser.advance
Parser_advance(pos) ==
    IF Parser_current(pos).type # "EOF" THEN pos + 1 ELSE pos

check(pos, types) == Parser_current(pos).type \in types

\* Parser.expect: node is the token consumed
expect(pos, type, message) ==
    IF check(pos, {type}) THEN Parsed(Parser_advance(pos), Parser_current(pos))
    ELSE ParseError(message, Parser_current(pos))

RECURSIVE skip_newlines(_)
skip_newlines(pos) ==
    IF check(pos, {"NEWLINE"}) THEN skip_newlines(Parser_advance(pos)) ELSE pos

RECURSIVE parse_expr(_, _)
RECURSIVE parse_binary(_, _)
RECURSIVE parse_unary(_)
RECURSIVE parse_postfix(_)
RECURSIVE parse_primary(_)
RECURSIVE parse_exprs(_, _, _)
RECURSIVE parse_exprs_rest(_, _, _, _)

\* `append(self.parse_expr())`, then the same after every COMMA; an array
\* literal stops at a comma that is followed by its close bracket
parse_exprs_rest(pos, close, trailing, exprs) ==
    IF ~check(pos, {"COMMA"}) THEN Parsed(pos, exprs)
    ELSE IF trailing /\ check(Parser_advance(pos), {close})
    THEN Parsed(Parser_advance(pos), exprs)
    ELSE Then(parse_expr(Parser_advance(pos), 0), LAMBDA e :
              parse_exprs_rest(e.pos, close, trailing, Append(exprs, e.node)))

\* the arguments of a call or the elements of an array literal, then the
\* closing token
parse_exprs(pos, close, trailing) ==
    Then(IF check(pos, {close}) THEN Parsed(pos, <<>>)
         ELSE Then(parse_expr(pos, 0), LAMBDA e :
                   parse_exprs_rest(e.pos, close, trailing, <<e.node>>)),
         LAMBDA exprs :
    Then(expect(exprs.pos, close,
                IF close = "RPAREN" THEN "Expected ')' after arguments"
                ELSE "Expected ']' after array elements"),
         LAMBDA closed : Parsed(closed.pos, exprs.node)))

parse_primary(pos) ==
    LET token == Parser_current(pos)
        next == Parser_advance(pos)
    IN  CASE token.type = "INT" -> Parsed(next, IntLiteral(token.value, token.line))
          [] token.type = "FLOAT" ->
                Parsed(next, FloatLiteral(token.value, token.line))
          [] token.type = "STRING" ->
                Parsed(next, StringLiteral(token.value, token.line))
          [] token.type = "TRUE" -> Parsed(next, BoolLiteral(TRUE, token.line))
          [] token.type = "FALSE" -> Parsed(next, BoolLiteral(FALSE, token.line))
          [] token.type = "IDENT" -> Parsed(next, Identifier(token.value, token.line))
          [] token.type = "LPAREN" ->
                Then(parse_expr(next, 0), LAMBDA expr :
                Then(expect(expr.pos, "RPAREN", "Expected ')' after expression"),
                     LAMBDA closed : Parsed(closed.pos, expr.node)))
          [] token.type = "LBRACKET" ->
                Then(parse_exprs(next, "RBRACKET", TRUE), LAMBDA elements :
                     Parsed(elements.pos, ArrayLiteral(elements.node, token.line)))
          [] OTHER -> ParseError("Unexpected token: " \o token.type, token)

\* the loop of parse_postfix, expr what was parsed so far
RECURSIVE parse_postfix_loop(_)
parse_postfix_loop(expr) ==
    IF check(expr.pos, {"LPAREN"})
    THEN Then(parse_exprs(Parser_advance(expr.pos), "RPAREN", FALSE), LAMBDA args :
              parse_postfix_loop(
                  Parsed(args.pos, CallExpr(expr.node, args.node, expr.node.line))))
    ELSE IF check(expr.pos, {"LBRACKET"})
    THEN Then(parse_expr(Parser_advance(expr.pos), 0), LAMBDA index :
         Then(expect(index.pos, "RBRACKET", "Expected ']' after index"),
              LAMBDA closed :
              parse_postfix_loop(
                  Parsed(closed.pos,
                         IndexExpr(expr.node, index.node, expr.node.line)))))
    ELSE expr

parse_postfix(pos) == Then(parse_primary(pos), LAMBDA expr : parse_postfix_loop(expr))

parse_unary(pos) ==
    LET token == Parser_current(pos)
    IN  IF token.type \in {"MINUS", "NOT"}
        THEN Then(parse_unary(Parser_advance(pos)), LAMBDA operand :
                  Parsed(operand.pos,
                         UnaryExpr(IF token.type = "MINUS" THEN "NEG" ELSE "NOT",
                                   operand.node, token.line)))
        ELSE parse_postfix(pos)

\* the loop of parse_expr, left what was parsed so far
parse_binary(left, min_prec) ==
    LET token == Parser_current(left.pos)
        prec == IF token.type \in DOMAIN PRECEDENCE THEN PRECEDENCE[token.type]
                ELSE -1
    IN  IF prec < min_prec THEN left
        ELSE Then(parse_expr(Parser_advance(left.pos), prec + 1), LAMBDA right :
                  parse_binary(
                      Parsed(right.pos,
                             BinaryExpr(BINOP_MAP[token.type], left.node,
                                        right.node, token.line)),
                      min_prec))

parse_expr(pos, min_prec) ==
    Then(parse_unary(pos), LAMBDA left : parse_binary(left, min_prec))

RECURSIVE parse_stmt(_)
RECURSIVE parse_statements(_, _, _)

\* `while not self.check(...): statements.append(self.parse_stmt());
\* self.skip_newlines()`, after the skip_newlines before the loop
parse_statements(pos, stop, statements) ==
    IF check(skip_newlines(pos), stop) THEN Parsed(skip_newlines(pos), statements)
    ELSE Then(parse_stmt(skip_newlines(pos)), LAMBDA stmt :
              parse_statements(stmt.pos, stop, Append(statements, stmt.node)))

parse_block(pos) == parse_statements(pos, {"END", "ELSE", "ELIF", "EOF"}, <<>>)

parse_var_decl(pos) ==
    LET token == Parser_current(pos)
    IN  Then(expect(Parser_advance(pos), "IDENT", "Expected variable name"),
             LAMBDA name :
        Then(IF check(name.pos, {"COLON"})
             THEN expect(Parser_advance(name.pos), "IDENT",
                         "Expected type annotation")
             ELSE name,
             LAMBDA type_ann :
        Then(expect(type_ann.pos, "ASSIGN", "Expected '=' after variable name"),
             LAMBDA assign :
        Then(parse_expr(assign.pos, 0), LAMBDA value :
             Parsed(value.pos,
                    VarDecl(name.node.value, value.node, token.type = "CONST",
                            token.line))))))

parse_param(pos) ==
    Then(expect(pos, "IDENT", "Expected parameter name"), LAMBDA name :
    Then(expect(name.pos, "COLON", "Expected ':' after parameter name"),
         LAMBDA colon :
    Then(expect(colon.pos, "IDENT", "Expected parameter type"), LAMBDA type :
         Parsed(type.pos, name.node.value))))

\* `params.append(self.parse_param())` after every COMMA
RECURSIVE parse_params_rest(_, _)
parse_params_rest(pos, params) ==
    IF ~check(pos, {"COMMA"}) THEN Parsed(pos, params)
    ELSE Then(parse_param(Parser_advance(pos)), LAMBDA param :
              parse_params_rest(param.pos, Append(params, param.node)))

parse_fn_decl(pos) ==
    Then(expect(pos, "FN", "Expected 'fn'"), LAMBDA token :
    Then(expect(token.pos, "IDENT", "Expected function name"), LAMBDA name :
    Then(expect(name.pos, "LPAREN", "Expected '(' after function name"),
         LAMBDA open :
    Then(IF check(open.pos, {"RPAREN"}) THEN Parsed(open.pos, <<>>)
         ELSE Then(parse_param(open.pos), LAMBDA param :
                   parse_params_rest(param.pos, <<param.node>>)),
         LAMBDA params :
    Then(expect(params.pos, "RPAREN", "Expected ')' after parameters"),
         LAMBDA closed :
    Then(IF check(closed.pos, {"ARROW"})
         THEN expect(Parser_advance(closed.pos), "IDENT", "Expected return type")
         ELSE closed,
         LAMBDA return_type :
    Then(parse_block(return_type.pos), LAMBDA body :
    Then(expect(body.pos, "END", "Expected 'end' after function body"),
         LAMBDA end :
         Parsed(end.pos,
                FnDecl(name.node.value, params.node, body.node,
                       token.node.line))))))))))

\* `while self.match(TokenType.ELIF): ...` of parse_if_stmt
RECURSIVE parse_elif_clauses(_, _)
parse_elif_clauses(pos, elif_clauses) ==
    IF ~check(pos, {"ELIF"}) THEN Parsed(pos, elif_clauses)
    ELSE Then(parse_expr(Parser_advance(pos), 0), LAMBDA elif_cond :
         Then(expect(elif_cond.pos, "THEN", "Expected 'then' after elif condition"),
              LAMBDA then :
         Then(parse_block(then.pos), LAMBDA elif_body :
              parse_elif_clauses(
                  elif_body.pos,
                  Append(elif_clauses,
                         [condition |-> elif_cond.node, body |-> elif_body.node])))))

parse_if_stmt(pos) ==
    Then(expect(pos, "IF", "Expected 'if'"), LAMBDA token :
    Then(parse_expr(token.pos, 0), LAMBDA condition :
    Then(expect(condition.pos, "THEN", "Expected 'then' after condition"),
         LAMBDA then :
    Then(parse_block(then.pos), LAMBDA then_body :
    Then(parse_elif_clauses(then_body.pos, <<>>), LAMBDA elif_clauses :
    Then(IF check(elif_clauses.pos, {"ELSE"})
         THEN parse_block(Parser_advance(elif_clauses.pos))
         ELSE Parsed(elif_clauses.pos, <<>>),
         LAMBDA else_body :
    Then(expect(else_body.pos, "END", "Expected 'end' after if statement"),
         LAMBDA end :
         Parsed(end.pos,
                IfStmt(condition.node, then_body.node, elif_clauses.node,
                       else_body.node, token.node.line)))))))))

parse_while_stmt(pos) ==
    Then(expect(pos, "WHILE", "Expected 'while'"), LAMBDA token :
    Then(parse_expr(token.pos, 0), LAMBDA condition :
    Then(expect(condition.pos, "DO", "Expected 'do' after condition"), LAMBDA do :
    Then(parse_block(do.pos), LAMBDA body :
    Then(expect(body.pos, "END", "Expected 'end' after while loop"), LAMBDA end :
         Parsed(end.pos, WhileStmt(condition.node, body.node, token.node.line)))))))

parse_for_stmt(pos) ==
    Then(expect(pos, "FOR", "Expected 'for'"), LAMBDA token :
    Then(expect(token.pos, "IDENT", "Expected loop variable"), LAMBDA var_token :
    Then(expect(var_token.pos, "IN", "Expected 'in' after variable"), LAMBDA in :
    Then(parse_expr(in.pos, 0), LAMBDA start :
    Then(IF check(start.pos, {"RANGE"})
         THEN Then(parse_expr(Parser_advance(start.pos), 0), LAMBDA end :
                   Parsed(end.pos,
                          RangeExpr(start.node, end.node, start.node.line)))
         ELSE start,
         LAMBDA iterable :
    Then(expect(iterable.pos, "DO", "Expected 'do' after iterable"), LAMBDA do :
    Then(parse_block(do.pos), LAMBDA body :
    Then(expect(body.pos, "END", "Expected 'end' after for loop"), LAMBDA end :
         Parsed(end.pos,
                ForStmt(var_token.node.value, iterable.node, body.node,
                        token.node.line))))))))))

parse_return_stmt(pos) ==
    Then(expect(pos, "RETURN", "Expected 'return'"), LAMBDA token :
         IF check(token.pos, {"NEWLINE", "EOF", "END"})
         THEN Parsed(token.pos, ReturnStmt(NoValue, token.node.line))
         ELSE Then(parse_expr(token.pos, 0), LAMBDA value :
                   Parsed(value.pos, ReturnStmt(value.node, token.node.line))))

parse_expr_or_assign(pos) ==
    Then(parse_expr(pos, 0), LAMBDA expr :
         IF check(expr.pos, {"ASSIGN"})
         THEN Then(parse_expr(Parser_advance(expr.pos), 0), LAMBDA value :
                   Parsed(value.pos,
                          Assignment(expr.node, value.node, expr.node.line)))
         ELSE Parsed(expr.pos, ExprStmt(expr.node, expr.node.line)))

\* Parser.parse_stmt, from the position after its skip_newlines
parse_stmt(pos) ==
    CASE check(pos, {"LET", "CONST"}) -> parse_var_decl(pos)
      [] check(pos, {"FN"}) -> parse_fn_decl(pos)
      [] check(pos, {"IF"}) -> parse_if_stmt(pos)
      [] check(pos, {"WHILE"}) -> parse_while_stmt(pos)
      [] check(pos, {"FOR"}) -> parse_for_stmt(pos)
      [] check(pos, {"RETURN"}) -> parse_return_stmt(pos)
      [] OTHER -> parse_expr_or_assign(pos)

\* Parser(tokens).parse_program(): node is Program.statements
parse_program == parse_statements(0, {"EOF"}, <<>>)

(***************************************************************************)
(* compiler.py: Chunk.                                                     *)
(***************************************************************************)
EmptyChunk == [code |-> <<>>, constants |-> <<>>, lines |-> <<>>]

emit(chunk, op, line) ==
    [chunk EXCEPT !.code = Append(@, op), !.lines = Append(@, line)]

emit_arg(chunk, op, arg, line) ==
    [chunk EXCEPT !.code = @ \o <<op, arg>>, !.lines = @ \o <<line, line>>]

\* `c == value and type(c) == type(value)` on two constants.
\* A faulty comparison that leaves out the type: True == 1 in Python.
SameConstant_untyped(c, value) == c.i = value.i /\ c.s = value.s

SameConstant(c, value) == c.t = value.t /\ c = value

\* Chunk.add_constant returns an index and may append: the result is the
\* pair of the chunk afterwards and the index returned.
add_constant(chunk, value) ==
    LET found == {k \in 1..Len(chunk.constants) :
                    SameConstant(chunk.constants[k], value)}
    IN  IF found # {}
        THEN [chunk |-> chunk,
              idx |-> (CHOOSE k \in found : \A j \in found : k <= j) - 1]
        ELSE [chunk |-> [chunk EXCEPT !.constants = Append(@, value)],
              idx |-> Len(chunk.constants)]

current_offset(chunk) == Len(chunk.code)

\* A faulty patch_jump that writes the offset of the last cell emitted.
patch_jump_last_cell(chunk, offset) ==
    [chunk EXCEPT !.code[offset + 1] = current_offset(chunk) - 1]

patch_jump(chunk, offset) ==
    [chunk EXCEPT !.code[offset + 1] = current_offset(chunk)]

CompiledFunction(name, arity, chunk, locals_count) ==
    [name |-> name, arity |-> arity, chunk |-> chunk,
     locals_count |-> locals_count]

(***************************************************************************)
(* compiler.py: Compiler.  A compiler object is the record of its fields:  *)
(* chunk, locals (name -> slot), scope_depth, functions (name ->           *)
(* CompiledFunction) and iter_counter.  loop_starts and loop_exits are     *)
(* never read or written after construction and are left out.  Every       *)
(* compile_* method becomes an operator from the compiler before the call  *)
(* to the compiler after it.                                               *)
(***************************************************************************)
EmptyDict == [n \in {} |-> 0]

NewCompiler ==
    [chunk |-> EmptyChunk, locals |-> EmptyDict, scope_depth |-> 0,
     functions |-> EmptyDict, iter_counter |-> 0, exc |-> ""]

\* An exception raised inside a compile method: it leaves compile(), and
\* nothing the compiler does afterwards is seen.
CompilerRaises(c, exc) == IF c.exc # "" THEN c ELSE [c EXCEPT !.exc = exc]

\* self.chunk.emit(op, line)
Emit(c, op, line) == [c EXCEPT !.chunk = emit(@, op, line)]

\* self.chunk.emit_arg(op, arg, line)
EmitArg(c, op, arg, line) == [c EXCEPT !.chunk = emit_arg(@, op, arg, line)]

\* idx = self.chunk.add_constant(value); self.chunk.emit_arg(op, idx, line)
EmitConstant(c, op, value, line) ==
    LET r == add_constant(c.chunk, value)
    IN  [c EXCEPT !.chunk = emit_arg(r.chunk, op, r.idx, line)]

\* self.chunk.patch_jump(offset)
PatchJump(c, offset) == [c EXCEPT !.chunk = patch_jump(@, offset)]

OP_MAP ==
    [ADD |-> OpCode.ADD, SUB |-> OpCode.SUB, MUL |-> OpCode.MUL,
     DIV |-> OpCode.DIV, MOD |-> OpCode.MOD, EQ |-> OpCode.EQ,
     NEQ |-> OpCode.NEQ, LT |-> OpCode.LT, GT |-> OpCode.GT,
     LTE |-> OpCode.LTE, GTE |-> OpCode.GTE, BAND |-> OpCode.BAND,
     BOR |-> OpCode.BOR, BXOR |-> OpCode.BXOR, SHL |-> OpCode.SHL,
     SHR |-> OpCode.SHR]

\* `x = v` followed by the statements K that read x.  The statements of a
\* method run in order: the guard has the value of v computed before K is
\* entered (without it the value would be computed where K first reads x).
Let(v, K(_)) == CASE v = v -> K(v)

RECURSIVE compile_expr(_, _)
RECURSIVE compile_stmt(_, _)

\* `for e in exprs: self.compile_expr(e)`
RECURSIVE compile_exprs(_, _)
compile_exprs(c, exprs) ==
    IF Len(exprs) = 0 THEN c
    ELSE Let(compile_expr(c, Head(exprs)), LAMBDA c1 :
             compile_exprs(c1, Tail(exprs)))

\* `for s in body: self.compile_stmt(s)`
RECURSIVE compile_stmts(_, _)
compile_stmts(c, stmts) ==
    IF Len(stmts) = 0 THEN c
    ELSE Let(compile_stmt(c, Head(stmts)), LAMBDA c1 :
             compile_stmts(c1, Tail(stmts)))

\* A faulty lowering of `and` / `or` that does not short-circuit: the left
\* operand is evaluated and dropped, and the right operand is the result.
compile_both_operands(c, expr, jump_op) ==
    compile_expr(Emit(compile_expr(c, expr.left), OpCode.POP, expr.line),
                 expr.right)

\* The short-circuit lowering shared by `and` (jump_op = JMP_IF_FALSE) and
\* `or` (jump_op = JMP_IF_TRUE): left; jump_op Lend; POP; right; Lend:
compile_short_circuit(c, expr, jump_op) ==
    Let(compile_expr(c, expr.left), LAMBDA c1 :
        LET jump == current_offset(c1.chunk)
            c2 == Emit(EmitArg(c1, jump_op, 0, expr.line), OpCode.POP, expr.line)
        IN  PatchJump(compile_expr(c2, expr.right), jump + 1))

compile_binary(c, expr) ==
    IF expr.op = "AND" THEN compile_short_circuit(c, expr, OpCode.JMP_IF_FALSE)
    ELSE IF expr.op = "OR" THEN compile_short_circuit(c, expr, OpCode.JMP_IF_TRUE)
    ELSE Emit(compile_expr(compile_expr(c, expr.left), expr.right),
              OP_MAP[expr.op], expr.line)

\* print(args): each argument followed by PRINT
RECURSIVE compile_print_args(_, _, _)
compile_print_args(c, args, line) ==
    IF Len(args) = 0 THEN c
    ELSE Let(Emit(compile_expr(c, Head(args)), OpCode.PRINT, line), LAMBDA c1 :
             compile_print_args(c1, Tail(args), line))

compile_call(c, expr) ==
    LET name == IF expr.callee.kind = "Identifier" THEN expr.callee.name ELSE ""
    IN  IF name = "print"
        THEN EmitConstant(compile_print_args(c, expr.args, expr.line),
                          OpCode.CONST, PyNone, expr.line)
        ELSE IF name = "len"
        THEN IF Len(expr.args) < 1 THEN CompilerRaises(c, "IndexError")
             ELSE Emit(compile_expr(c, expr.args[1]), OpCode.LEN, expr.line)
        ELSE IF name = "push"
        THEN IF Len(expr.args) < 1 THEN CompilerRaises(c, "IndexError")
             ELSE IF Len(expr.args) < 2
             THEN CompilerRaises(compile_expr(c, expr.args[1]), "IndexError")
             ELSE Emit(compile_expr(compile_expr(c, expr.args[1]), expr.args[2]),
                       OpCode.PUSH, expr.line)
        ELSE IF name = "pop"
        THEN IF Len(expr.args) < 1 THEN CompilerRaises(c, "IndexError")
             ELSE Emit(compile_expr(c, expr.args[1]), OpCode.POP_ARRAY,
                       expr.line)
        ELSE IF name = "time"
        THEN Emit(c, OpCode.TIME, expr.line)
        ELSE IF name = "input"
        THEN Emit(c, OpCode.INPUT, expr.line)
        ELSE EmitArg(compile_exprs(compile_expr(c, expr.callee), expr.args),
                     OpCode.CALL, Len(expr.args), expr.line)

compile_expr(c, expr) ==
    CASE c.exc # "" -> c
      [] expr.kind = "IntLiteral" ->
            EmitConstant(c, OpCode.CONST, PyInt(expr.value), expr.line)
      [] expr.kind = "FloatLiteral" ->
            EmitConstant(c, OpCode.CONST, PyFloat(expr.value), expr.line)
      [] expr.kind = "StringLiteral" ->
            EmitConstant(c, OpCode.CONST, PyStr(expr.value), expr.line)
      [] expr.kind = "BoolLiteral" ->
            IF expr.value THEN Emit(c, OpCode.TRUE, expr.line)
            ELSE Emit(c, OpCode.FALSE, expr.line)
      [] expr.kind = "Identifier" ->
            IF expr.name \in DOMAIN c.locals
            THEN EmitArg(c, OpCode.LOAD, c.locals[expr.name], expr.line)
            ELSE EmitConstant(c, OpCode.LOAD_GLOBAL, PyStr(expr.name), expr.line)
      [] expr.kind = "BinaryExpr" -> compile_binary(c, expr)
      [] expr.kind = "UnaryExpr" ->
            LET c1 == compile_expr(c, expr.operand)
            IN  IF expr.op = "NEG" THEN Emit(c1, OpCode.NEG, expr.line)
                ELSE IF expr.op = "NOT" THEN Emit(c1, OpCode.NOT, expr.line)
                ELSE c1
      [] expr.kind = "CallExpr" -> compile_call(c, expr)
      [] expr.kind = "IndexExpr" ->
            Emit(compile_expr(compile_expr(c, expr.obj), expr.index),
                 OpCode.INDEX, expr.line)
      [] expr.kind = "ArrayLiteral" ->
            EmitArg(compile_exprs(c, expr.elements), OpCode.ARRAY,
                    Len(expr.elements), expr.line)
      [] expr.kind = "RangeExpr" ->
            LET c1 == EmitConstant(c, OpCode.LOAD_GLOBAL, PyStr("__range__"),
                                   expr.line)
            IN  EmitArg(compile_expr(compile_expr(c1, expr.start), expr.end),
                        OpCode.CALL, 2, expr.line)
      [] OTHER -> c

compile_var_decl(c, stmt) ==
    Let(compile_expr(c, stmt.value), LAMBDA c1 :
        IF c1.scope_depth = 0
        THEN Emit(EmitConstant(c1, OpCode.STORE_GLOBAL, PyStr(stmt.name), stmt.line),
                  OpCode.POP, stmt.line)
        ELSE [c1 EXCEPT !.locals =
                 (stmt.name :> Cardinality(DOMAIN c1.locals)) @@ @])

compile_assignment(c, stmt) ==
    Let(compile_expr(c, stmt.value), LAMBDA c1 :
        LET c2 == IF stmt.target.kind = "Identifier"
                  THEN IF stmt.target.name \in DOMAIN c1.locals
                       THEN EmitArg(c1, OpCode.STORE, c1.locals[stmt.target.name],
                                    stmt.line)
                       ELSE EmitConstant(c1, OpCode.STORE_GLOBAL,
                                         PyStr(stmt.target.name), stmt.line)
                  ELSE IF stmt.target.kind = "IndexExpr"
                  THEN Emit(compile_expr(compile_expr(c1, stmt.target.obj),
                                         stmt.target.index),
                            OpCode.INDEX_SET, stmt.line)
                  ELSE c1
        IN  Emit(c2, OpCode.POP, stmt.line))

\* The elif loop of compile_if; st is the pair of the compiler and the list
\* exit_jumps.
RECURSIVE compile_elif_clauses(_, _, _)
\* A faulty lowering of elif clauses that tests no condition: each
\* condition is evaluated and dropped and the body runs.
compile_elif_unconditional(st, clauses, line) ==
    IF Len(clauses) = 0 THEN st
    ELSE
        Let(compile_expr(st.c, Head(clauses).condition), LAMBDA c1 :
        Let(compile_stmts(Emit(c1, OpCode.POP, line), Head(clauses).body),
            LAMBDA c3 :
                compile_elif_clauses([c |-> c3, exit_jumps |-> st.exit_jumps],
                                     Tail(clauses), line)))

compile_elif_clauses(st, clauses, line) ==
    IF Len(clauses) = 0 THEN st
    ELSE
        Let(compile_expr(st.c, Head(clauses).condition), LAMBDA c1 :
        Let(compile_stmts(Emit(EmitArg(c1, OpCode.JMP_IF_FALSE, 0, line),
                               OpCode.POP, line),
                          Head(clauses).body), LAMBDA c3 :
            LET jump_if_false == current_offset(c1.chunk)
                exit_jump == current_offset(c3.chunk)
                c4 == EmitArg(c3, OpCode.JMP, 0, line)
                c5 == Emit(PatchJump(c4, jump_if_false + 1), OpCode.POP, line)
            IN  compile_elif_clauses(
                    [c |-> c5, exit_jumps |-> Append(st.exit_jumps, exit_jump)],
                    Tail(clauses), line)))

\* `for offset in exit_jumps: self.chunk.patch_jump(offset + 1)`
RECURSIVE patch_exit_jumps(_, _)
patch_exit_jumps(c, exit_jumps) ==
    IF Len(exit_jumps) = 0 THEN c
    ELSE patch_exit_jumps(PatchJump(c, Head(exit_jumps) + 1), Tail(exit_jumps))

compile_if(c, stmt) ==
    Let(compile_expr(c, stmt.condition), LAMBDA c1 :
    Let(compile_stmts(Emit(EmitArg(c1, OpCode.JMP_IF_FALSE, 0, stmt.line),
                           OpCode.POP, stmt.line),
                      stmt.then_body), LAMBDA c3 :
        LET jump_if_false == current_offset(c1.chunk)
            exit_jump == current_offset(c3.chunk)
            c4 == EmitArg(c3, OpCode.JMP, 0, stmt.line)
            c5 == Emit(PatchJump(c4, jump_if_false + 1), OpCode.POP, stmt.line)
        IN  Let(compile_elif_clauses([c |-> c5, exit_jumps |-> <<exit_jump>>],
                                     stmt.elif_clauses, stmt.line), LAMBDA st :
                patch_exit_jumps(compile_stmts(st.c, stmt.else_body),
                                 st.exit_jumps))))

\* A faulty compile_while whose exit path leaves the condition on the stack.
compile_while_exit_unpopped(c, stmt) ==
    Let(compile_expr(c, stmt.condition), LAMBDA c1 :
        LET loop_start == current_offset(c.chunk)
            exit_jump == current_offset(c1.chunk)
            c2 == Emit(EmitArg(c1, OpCode.JMP_IF_FALSE, 0, stmt.line),
                       OpCode.POP, stmt.line)
            c4 == EmitArg(compile_stmts(c2, stmt.body), OpCode.JMP, loop_start,
                          stmt.line)
        IN  Emit(PatchJump(c4, exit_jump + 1), OpCode.NOT, stmt.line))

compile_while(c, stmt) ==
    Let(compile_expr(c, stmt.condition), LAMBDA c1 :
        LET loop_start == current_offset(c.chunk)
            exit_jump == current_offset(c1.chunk)
            c2 == Emit(EmitArg(c1, OpCode.JMP_IF_FALSE, 0, stmt.line),
                       OpCode.POP, stmt.line)
            c4 == EmitArg(compile_stmts(c2, stmt.body), OpCode.JMP, loop_start,
                          stmt.line)
        IN  Emit(PatchJump(c4, exit_jump + 1), OpCode.POP, stmt.line))

\* f"__iter_{self.iter_counter}"
iter_name(iter_counter) == "__iter_" \o ToString(iter_counter)

compile_for(c, stmt) ==
    Let(Emit(compile_expr(c, stmt.iterable), OpCode.ITER, stmt.line), LAMBDA c1 :
        LET c2 == [c1 EXCEPT !.iter_counter = @ + 1]
            iter_idx == add_constant(c2.chunk, PyStr(iter_name(c2.iter_counter)))
            c3 == Emit(EmitArg([c2 EXCEPT !.chunk = iter_idx.chunk],
                               OpCode.STORE_GLOBAL, iter_idx.idx, stmt.line),
                       OpCode.POP, stmt.line)
            var_idx == add_constant(c3.chunk, PyStr(stmt.var_name))
            loop_start == current_offset(var_idx.chunk)
            c5 == EmitArg([c3 EXCEPT !.chunk = var_idx.chunk], OpCode.LOAD_GLOBAL,
                          iter_idx.idx, stmt.line)
            exit_jump == current_offset(c5.chunk)
            c6 == EmitArg(c5, OpCode.ITER_NEXT, 0, stmt.line)
            c7 == Emit(EmitArg(c6, OpCode.STORE_GLOBAL, var_idx.idx, stmt.line),
                       OpCode.POP, stmt.line)
        IN  Let(c7, LAMBDA c8 :
                PatchJump(EmitArg(compile_stmts(c8, stmt.body), OpCode.JMP,
                                  loop_start, stmt.line),
                          exit_jump + 1)))

compile_return(c, stmt) ==
    Emit(IF stmt.value.kind # "None"
         THEN compile_expr(c, stmt.value)
         ELSE EmitConstant(c, OpCode.CONST, PyNone, stmt.line),
         OpCode.RET, stmt.line)

\* `for i, param in enumerate(stmt.params): fn_compiler.locals[param.name] = i`
param_locals(params) ==
    [n \in {params[k] : k \in 1..Len(params)} |->
        (CHOOSE k \in 1..Len(params) :
            params[k] = n /\ \A j \in 1..Len(params) : params[j] = n => j <= k) - 1]

\* fn_compiler = Compiler()
fn_compiler_new == NewCompiler

compile_fn_decl(c, stmt) ==
    Let(compile_stmts([fn_compiler_new EXCEPT !.locals = param_locals(stmt.params)],
                      stmt.body), LAMBDA fc1 :
    Let(Emit(EmitConstant(fc1, OpCode.CONST, PyNone, stmt.line),
             OpCode.RET, stmt.line), LAMBDA fn_compiler :
    IF fn_compiler.exc # "" THEN CompilerRaises(c, fn_compiler.exc) ELSE
    Let(CompiledFunction(stmt.name, Len(stmt.params), fn_compiler.chunk,
                         Cardinality(DOMAIN fn_compiler.locals)), LAMBDA fn :
    Let(add_constant(c.chunk, Fn(fn)), LAMBDA f :
    Let(add_constant(f.chunk, PyStr(stmt.name)), LAMBDA n :
        EmitArg(EmitArg([c EXCEPT !.functions = (stmt.name :> fn) @@ @,
                                  !.chunk = n.chunk],
                        OpCode.CONST, f.idx, stmt.line),
                OpCode.STORE_GLOBAL, n.idx, stmt.line))))))

compile_stmt(c, stmt) ==
    CASE c.exc # "" -> c
      [] stmt.kind = "VarDecl" -> compile_var_decl(c, stmt)
      [] stmt.kind = "Assignment" -> compile_assignment(c, stmt)
      [] stmt.kind = "IfStmt" -> compile_if(c, stmt)
      [] stmt.kind = "WhileStmt" -> compile_while(c, stmt)
      [] stmt.kind = "ForStmt" -> compile_for(c, stmt)
      [] stmt.kind = "ReturnStmt" -> compile_return(c, stmt)
      [] stmt.kind = "ExprStmt" ->
            Emit(compile_expr(c, stmt.expr), OpCode.POP, stmt.line)
      [] stmt.kind = "FnDecl" -> c
      [] OTHER -> c

\* The two passes of Compiler.compile over program.statements.
RECURSIVE compile_pass(_, _, _)
\* A faulty compile that keeps the textual order: the first pass does
\* nothing and the second compiles every statement where it stands.
compile_in_order(c, stmts, fn_decls) ==
    IF Len(stmts) = 0 \/ fn_decls THEN c
    ELSE LET s == Head(stmts)
         IN  Let(IF s.kind = "FnDecl" THEN compile_fn_decl(c, s)
                 ELSE compile_stmt(c, s),
                 LAMBDA c1 : compile_pass(c1, Tail(stmts), fn_decls))

compile_pass(c, stmts, fn_decls) ==
    IF Len(stmts) = 0 THEN c
    ELSE LET s == Head(stmts)
         IN  Let(IF fn_decls
                 THEN IF s.kind = "FnDecl" THEN compile_fn_decl(c, s) ELSE c
                 ELSE IF s.kind # "FnDecl" THEN compile_stmt(c, s) ELSE c,
                 LAMBDA c1 : compile_pass(c1, Tail(stmts), fn_decls))

\* Compiler().compile(program), program given by its statements
\* ... as the compiler at the end of compile(): its chunk is returned
\* unless an exception was raised
compile_result(statements) ==
    Let(compile_pass(NewCompiler, statements, TRUE), LAMBDA c1 :
    Let(compile_pass(c1, statements, FALSE), LAMBDA c2 :
        Emit(c2, OpCode.HALT, 0)))

compile(statements) == compile_result(statements).chunk

(***************************************************************************)
(* Host (Python) semantics of the operations VM.run applies to values.     *)
(* Each operator returns [exc, value, alloc]: exc is "" or the name of the *)
(* Python exception the operation raises; alloc is the list of heap        *)
(* objects the operation creates (a result list lives at the address right *)
(* after the current heap).  Floats are not among the values of the model. *)
(***************************************************************************)
Result(value) == [exc |-> "", value |-> value, alloc |-> <<>>]

Raises(exc) == [exc |-> exc, value |-> PyNone, alloc |-> <<>>]

\* isinstance(v, int): bool is a subclass of int
IsInt(v) == v.t \in {"int", "bool"}

ListObject(items) == [kind |-> "list", items |-> items]

RangeIterator(start, end) ==
    [kind |-> "RangeIterator", current |-> start, end |-> end]

ArrayIterator(array) == [kind |-> "ArrayIterator", array |-> array, index |-> 0]

\* The order of str values under `<`, for the string literals of the model.
StringOrder == <<"", "a", "b", "n", "p", "z">>

StrRank(x) == CHOOSE k \in 1..Len(StringOrder) : StringOrder[k] = x

\* bool(v): None, False, 0, "" and [] are falsy; functions, host callables
\* and iterators define neither __bool__ nor __len__ and are truthy.
Truthy(v, h) ==
    CASE v.t = "NoneType" -> FALSE
      [] IsInt(v) -> v.i # 0
      [] v.t = "str" -> v.s # ""
      [] v.t = "list" -> Len(h[v.i].items) > 0
      [] OTHER -> TRUE

\* a == b
RECURSIVE PyEq(_, _, _)
PyEq(a, b, h) ==
    CASE IsInt(a) /\ IsInt(b) -> a.i = b.i
      [] a.t = "str" /\ b.t = "str" -> a.s = b.s
      [] a.t = "NoneType" /\ b.t = "NoneType" -> TRUE
      [] a.t = "list" /\ b.t = "list" ->
            LET x == h[a.i].items
                y == h[b.i].items
            IN  /\ Len(x) = Len(y)
                /\ \A k \in 1..Len(x) : PyEq(x[k], y[k], h)
      [] a.t = "CompiledFunction" /\ b.t = "CompiledFunction" -> a.fn = b.fn
      [] a.t = "method" /\ b.t = "method" -> a.s = b.s
      [] a.t = b.t /\ a.t \in {"RangeIterator", "ArrayIterator"} -> a.i = b.i
      [] OTHER -> FALSE

\* a // b on ints: floor division
PyFloorDiv(a, b) == IF b > 0 THEN a \div b ELSE (0 - a) \div (0 - b)

\* a % b on ints: the sign follows the divisor
PyMod(a, b) == a - b * PyFloorDiv(a, b)

RECURSIVE Repeat(_, _)
Repeat(seq, n) == IF n <= 0 THEN <<>> ELSE seq \o Repeat(seq, n - 1)

RECURSIVE RepeatStr(_, _)
RepeatStr(x, n) == IF n <= 0 THEN "" ELSE x \o RepeatStr(x, n - 1)

\* a + b
PyAdd(a, b, h) ==
    CASE IsInt(a) /\ IsInt(b) -> Result(PyInt(a.i + b.i))
      [] a.t = "str" /\ b.t = "str" -> Result(PyStr(a.s \o b.s))
      [] a.t = "list" /\ b.t = "list" ->
            [exc |-> "", value |-> ListRef(Len(h) + 1),
             alloc |-> <<ListObject(h[a.i].items \o h[b.i].items)>>]
      [] OTHER -> Raises("TypeError")

\* a - b
PySub(a, b, h) ==
    IF IsInt(a) /\ IsInt(b) THEN Result(PyInt(a.i - b.i)) ELSE Raises("TypeError")

\* a * b
PyMul(a, b, h) ==
    CASE IsInt(a) /\ IsInt(b) -> Result(PyInt(a.i * b.i))
      [] a.t = "str" /\ IsInt(b) -> Result(PyStr(RepeatStr(a.s, b.i)))
      [] IsInt(a) /\ b.t = "str" -> Result(PyStr(RepeatStr(b.s, a.i)))
      [] a.t = "list" /\ IsInt(b) ->
            [exc |-> "", value |-> ListRef(Len(h) + 1),
             alloc |-> <<ListObject(Repeat(h[a.i].items, b.i))>>]
      [] IsInt(a) /\ b.t = "list" ->
            [exc |-> "", value |-> ListRef(Len(h) + 1),
             alloc |-> <<ListObject(Repeat(h[b.i].items, a.i))>>]
      [] OTHER -> Raises("TypeError")

\* `a // b` if both are ints, else `a / b` (which, without floats, has no
\* supported operand types left)
PyDiv(a, b, h) ==
    IF IsInt(a) /\ IsInt(b)
    THEN IF b.i = 0 THEN Raises("ZeroDivisionError")
         ELSE Result(PyInt(PyFloorDiv(a.i, b.i)))
    ELSE Raises("TypeError")

\* a % b; a str left operand is a format string, and one without conversion
\* specifiers (every string literal of the model) rejects its argument
PyModulo(a, b, h) ==
    IF IsInt(a) /\ IsInt(b)
    THEN IF b.i = 0 THEN Raises("ZeroDivisionError")
         ELSE Result(PyInt(PyMod(a.i, b.i)))
    ELSE Raises("TypeError")

\* -a
PyNeg(a) == IF IsInt(a) THEN Result(PyInt(0 - a.i)) ELSE Raises("TypeError")

\* a < b, defined on two numbers and on two strings (an ordering of two
\* lists is not produced by the programs of the model)
PyLess(a, b) ==
    CASE IsInt(a) /\ IsInt(b) -> Result(PyBool(a.i < b.i))
      [] a.t = "str" /\ b.t = "str" -> Result(PyBool(StrRank(a.s) < StrRank(b.s)))
      [] OTHER -> Raises("TypeError")

PyLessEq(a, b, h) ==
    LET lt == PyLess(a, b)
    IN  IF lt.exc # "" THEN lt
        ELSE Result(PyBool(lt.value.i = 1 \/ PyEq(a, b, h)))

(***************************************************************************)
(* vm.py: VM.  The state of one VM instance running one program.           *)
(*   program  the input: which source program was compiled (never changes) *)
(*   chunk, ip, stack, sp, globals, frames   the fields of VM; main_chunk  *)
(*            and frame_count are never read by run() and are left out     *)
(*   heap     the list, RangeIterator and ArrayIterator objects created by *)
(*            the run; a value of these types holds the object's address   *)
(*   printed  the values passed to print(), in order                       *)
(*   status   "running", or how run() ended: "halted" (HALT), "returned"   *)
(*            (RET without a frame), "error" (an exception left run())     *)
(*   result   the value run() returned                                     *)
(*   error    the exception that left run(): its type, and for the VM's    *)
(*            RuntimeError its message and line                            *)
(***************************************************************************)
VARIABLES program, chunk, ip, stack, sp, globals, frames, heap, printed,
          status, result, error

vars == <<front, program, chunk, ip, stack, sp, globals, frames, heap, printed,
          status, result, error>>

\* The line of an exception that is not the VM's RuntimeError: it has none.
NoLine == -1

NoError == [type |-> "", message |-> "", line |-> NoLine]

\* RuntimeError(message, line)
RuntimeError(message, line) ==
    [type |-> "RuntimeError", message |-> message, line |-> line]

\* An exception raised by the host language, not by the VM.
HostError(type) == [type |-> type, message |-> "", line |-> NoLine]

\* CallFrame(fn, ip, stack_base, chunk)
CallFrame(fn, return_ip, stack_base, caller_chunk) ==
    [fn |-> fn, ip |-> return_ip, stack_base |-> stack_base,
     chunk |-> caller_chunk]

\* Indexing the fixed-size Python list self.stack: indices -STACK_SIZE ..
\* STACK_SIZE - 1 are valid, a negative index counts from the end.
StackIndexOk(k) == 0 - STACK_SIZE <= k /\ k < STACK_SIZE

StackPos(k) == (IF k < 0 THEN k + STACK_SIZE ELSE k) + 1

(***************************************************************************)
(* VM.push / VM.pop / VM.peek act on m = [stack, sp, exc]: the stack and   *)
(* stack pointer in the middle of a handler, and the name of the exception *)
(* raised so far ("" if none; once raised, the rest of the handler is      *)
(* skipped).                                                               *)
(***************************************************************************)
Machine == [stack |-> stack, sp |-> sp, exc |-> ""]

raise(m, exc) == IF m.exc # "" THEN m ELSE [m EXCEPT !.exc = exc]

\* A faulty push without the bounds check of the list store: the stack
\* pointer advances past the end of the stack.
push_unchecked(m, value) ==
    IF m.exc # "" THEN m
    ELSE [m EXCEPT !.stack = IF StackIndexOk(m.sp)
                             THEN [@ EXCEPT ![StackPos(m.sp)] = value] ELSE @,
                   !.sp = @ + 1]

\* self.stack[self.sp] = value; self.sp += 1
push(m, value) ==
    IF m.exc # "" THEN m
    ELSE IF ~StackIndexOk(m.sp) THEN [m EXCEPT !.exc = "IndexError"]
    ELSE [m EXCEPT !.stack[StackPos(m.sp)] = value, !.sp = @ + 1]

\* self.sp -= 1; return self.stack[self.sp]: the machine after pop() ...
pop(m) ==
    IF m.exc # "" THEN m
    ELSE IF ~StackIndexOk(m.sp - 1)
    THEN [m EXCEPT !.sp = @ - 1, !.exc = "IndexError"]
    ELSE [m EXCEPT !.sp = @ - 1]

\* ... and the value pop() returns when called on m
popped(m) ==
    IF StackIndexOk(m.sp - 1) THEN m.stack[StackPos(m.sp - 1)] ELSE PyNone

\* self.stack[self.sp - 1 - offset]
peek(m, offset) ==
    IF StackIndexOk(m.sp - 1 - offset)
    THEN m.stack[StackPos(m.sp - 1 - offset)] ELSE PyNone

\* the exception peek(offset) raises on m, if any
peek_check(m, offset) ==
    IF StackIndexOk(m.sp - 1 - offset) THEN m ELSE raise(m, "IndexError")

\* [self.pop() for _ in range(n)]: the machine afterwards and the values in
\* the order popped
RECURSIVE pop_n(_, _)
pop_n(m, n) ==
    IF n <= 0 THEN [m |-> m, values |-> <<>>]
    ELSE LET r == pop_n(pop(m), n - 1)
         IN  [m |-> r.m, values |-> <<popped(m)>> \o r.values]

\* A faulty argument list: the values in the order popped.
SameOrder(seq) == seq

\* seq[::-1]
Reverse(seq) == [k \in 1..Len(seq) |-> seq[Len(seq) + 1 - k]]

\* VM.get_line() when self.ip = at
get_line(at) == IF at < Len(chunk.lines) THEN chunk.lines[at + 1] ELSE 0

(***************************************************************************)
(* The interpreter loop of VM.run: `op = code[self.ip]; self.ip += 1` and  *)
(* then the handler of op.  Every handler is one action.                   *)
(***************************************************************************)
\* the loop is at an instruction whose opcode is op
Fetch(op) ==
    /\ status = "running"
    /\ ip < Len(chunk.code)
    /\ chunk.code[ip + 1] = op

\* the inline operand byte `code[self.ip]` read after the opcode
Operand == chunk.code[ip + 2]

\* The handler ended with machine m and self.ip = next_ip; an exception
\* raised inside it leaves run().
Complete(m, next_ip) ==
    /\ stack' = m.stack
    /\ sp' = m.sp
    /\ ip' = next_ip
    /\ IF m.exc = ""
       THEN UNCHANGED <<status, error>>
       ELSE status' = "error" /\ error' = HostError(m.exc)

\* `raise RuntimeError(message, self.get_line())` with self.ip = at
Throw(message, at) ==
    /\ status' = "error"
    /\ error' = RuntimeError(message, get_line(at))
    /\ ip' = at

Run_CONST ==
    /\ Fetch(OpCode.CONST)
    /\ Complete(push(Machine, chunk.constants[Operand + 1]), ip + 2)
    /\ UNCHANGED <<front, program, chunk, globals, frames, heap, printed, result>>

Run_TRUE ==
    /\ Fetch(OpCode.TRUE)
    /\ Complete(push(Machine, PyBool(TRUE)), ip + 1)
    /\ UNCHANGED <<front, program, chunk, globals, frames, heap, printed, result>>

Run_FALSE ==
    /\ Fetch(OpCode.FALSE)
    /\ Complete(push(Machine, PyBool(FALSE)), ip + 1)
    /\ UNCHANGED <<front, program, chunk, globals, frames, heap, printed, result>>

\* the stack index a LOAD / STORE of `slot` addresses
\* A faulty slot address that ignores the frame.
SlotIndex_absolute(slot) == slot

SlotIndex(slot) ==
    IF Len(frames) > 0 THEN frames[Len(frames)].stack_base + slot ELSE slot

Run_LOAD ==
    /\ Fetch(OpCode.LOAD)
    /\ LET k == SlotIndex(Operand)
       IN  IF StackIndexOk(k)
           THEN Complete(push(Machine, stack[StackPos(k)]), ip + 2)
           ELSE Complete(raise(Machine, "IndexError"), ip + 2)
    /\ UNCHANGED <<front, program, chunk, globals, frames, heap, printed, result>>

Run_STORE ==
    /\ Fetch(OpCode.STORE)
    /\ LET k == SlotIndex(Operand)
           m == peek_check(Machine, 0)
       IN  IF m.exc = "" /\ StackIndexOk(k)
           THEN Complete([m EXCEPT !.stack[StackPos(k)] = peek(Machine, 0)], ip + 2)
           ELSE Complete(raise(m, "IndexError"), ip + 2)
    /\ UNCHANGED <<front, program, chunk, globals, frames, heap, printed, result>>

\* A faulty LOAD_GLOBAL that reads an unbound name as None (globals.get)
\* instead of raising.
Run_LOAD_GLOBAL_default ==
    /\ Fetch(OpCode.LOAD_GLOBAL)
    /\ LET name == chunk.constants[Operand + 1].s
       IN  Complete(push(Machine, IF name \in DOMAIN globals THEN globals[name]
                                  ELSE PyNone), ip + 2)
    /\ UNCHANGED <<front, program, chunk, globals, frames, heap, printed, result>>

Run_LOAD_GLOBAL ==
    /\ Fetch(OpCode.LOAD_GLOBAL)
    /\ LET name == chunk.constants[Operand + 1].s
       IN  IF name \notin DOMAIN globals
           THEN /\ Throw("Undefined variable: " \o name, ip + 2)
                /\ UNCHANGED <<stack, sp>>
           ELSE Complete(push(Machine, globals[name]), ip + 2)
    /\ UNCHANGED <<front, program, chunk, globals, frames, heap, printed, result>>

Run_STORE_GLOBAL ==
    /\ Fetch(OpCode.STORE_GLOBAL)
    /\ LET name == chunk.constants[Operand + 1].s
           m == peek_check(Machine, 0)
       IN  /\ Complete(m, ip + 2)
           /\ globals' = IF m.exc = ""
                         THEN (name :> peek(Machine, 0)) @@ globals
                         ELSE globals
    /\ UNCHANGED <<front, program, chunk, frames, heap, printed, result>>

\* `b = self.pop(); a = self.pop(); self.push(a <op> b)`, where F is the
\* host operation <op>
Binary(F(_, _, _)) ==
    /\ LET b == popped(Machine)
           m1 == pop(Machine)
           a == popped(m1)
           m2 == pop(m1)
           r == IF m2.exc = "" THEN F(a, b, heap) ELSE Raises(m2.exc)
       IN  /\ Complete(IF r.exc = "" THEN push(m2, r.value) ELSE raise(m2, r.exc),
                       ip + 1)
           /\ heap' = heap \o r.alloc
    /\ UNCHANGED <<front, program, chunk, globals, frames, printed, result>>

Run_ADD ==
    /\ Fetch(OpCode.ADD)
    /\ Binary(PyAdd)

Run_SUB ==
    /\ Fetch(OpCode.SUB)
    /\ Binary(PySub)

Run_MUL ==
    /\ Fetch(OpCode.MUL)
    /\ Binary(PyMul)

Run_DIV ==
    /\ Fetch(OpCode.DIV)
    /\ Binary(PyDiv)

Run_MOD ==
    /\ Fetch(OpCode.MOD)
    /\ Binary(PyModulo)

\* `self.push(<op> self.pop())`, where F is the host operation <op>
Unary(F(_)) ==
    /\ LET m1 == pop(Machine)
           r == IF m1.exc = "" THEN F(popped(Machine)) ELSE Raises(m1.exc)
       IN  Complete(IF r.exc = "" THEN push(m1, r.value) ELSE raise(m1, r.exc),
                    ip + 1)
    /\ UNCHANGED <<front, program, chunk, globals, frames, heap, printed, result>>

Run_NEG ==
    /\ Fetch(OpCode.NEG)
    /\ Unary(PyNeg)

CompareEQ(a, b, h) == Result(PyBool(PyEq(a, b, h)))

CompareNEQ(a, b, h) == Result(PyBool(~PyEq(a, b, h)))

CompareLT(a, b, h) == PyLess(a, b)

CompareGT(a, b, h) == PyLess(b, a)

CompareLTE(a, b, h) == PyLessEq(a, b, h)

CompareGTE(a, b, h) == PyLessEq(b, a, h)

Run_EQ ==
    /\ Fetch(OpCode.EQ)
    /\ Binary(CompareEQ)

Run_NEQ ==
    /\ Fetch(OpCode.NEQ)
    /\ Binary(CompareNEQ)

Run_LT ==
    /\ Fetch(OpCode.LT)
    /\ Binary(CompareLT)

Run_GT ==
    /\ Fetch(OpCode.GT)
    /\ Binary(CompareGT)

Run_LTE ==
    /\ Fetch(OpCode.LTE)
    /\ Binary(CompareLTE)

Run_GTE ==
    /\ Fetch(OpCode.GTE)
    /\ Binary(CompareGTE)

\* not a
PyNot(a) == Result(PyBool(~Truthy(a, heap)))

Run_NOT ==
    /\ Fetch(OpCode.NOT)
    /\ Unary(PyNot)

Run_JMP ==
    /\ Fetch(OpCode.JMP)
    /\ Complete(Machine, Operand)
    /\ UNCHANGED <<front, program, chunk, globals, frames, heap, printed, result>>

Run_JMP_IF_FALSE ==
    /\ Fetch(OpCode.JMP_IF_FALSE)
    /\ LET m == peek_check(Machine, 0)
       IN  Complete(m, IF m.exc = "" /\ ~Truthy(peek(Machine, 0), heap)
                       THEN Operand ELSE ip + 2)
    /\ UNCHANGED <<front, program, chunk, globals, frames, heap, printed, result>>

Run_JMP_IF_TRUE ==
    /\ Fetch(OpCode.JMP_IF_TRUE)
    /\ LET m == peek_check(Machine, 0)
       IN  Complete(m, IF m.exc = "" /\ Truthy(peek(Machine, 0), heap)
                       THEN Operand ELSE ip + 2)
    /\ UNCHANGED <<front, program, chunk, globals, frames, heap, printed, result>>

\* callable(callee): of the values of the model, only the bound method
\* registered under __range__
Callable(v) == v.t = "method"

\* `callee(*args)` for the host callable VM._builtin_range(start, end)
HostCall(callee, args) ==
    IF Len(args) # 2 THEN Raises("TypeError")
    ELSE [exc |-> "", value |-> RangeIteratorRef(Len(heap) + 1),
          alloc |-> <<RangeIterator(args[1], args[2])>>]

\* A faulty CALL that opens the frame of a compiled function whatever the
\* number of arguments.
Run_CALL_any_arity ==
    /\ Fetch(OpCode.CALL)
    /\ LET arg_count == Operand
           at == ip + 2
           callee == peek(Machine, arg_count)
       IN  IF Callable(callee)
           THEN LET p == pop_n(Machine, arg_count)
                    m1 == pop(p.m)
                    r == HostCall(callee, Reverse(p.values))
                IN  /\ Complete(IF r.exc = "" THEN push(m1, r.value)
                                ELSE raise(m1, r.exc), at)
                    /\ heap' = heap \o r.alloc
                    /\ UNCHANGED <<chunk, frames>>
           ELSE IF callee.t = "CompiledFunction"
           THEN /\ frames' = Append(frames,
                            CallFrame(callee.fn, at, sp - arg_count, chunk))
                /\ chunk' = callee.fn.chunk
                /\ Complete(Machine, 0)
                /\ UNCHANGED heap
           ELSE /\ Throw("Cannot call <class '" \o callee.t \o "'>", at)
                /\ UNCHANGED <<stack, sp, chunk, frames, heap>>
    /\ UNCHANGED <<front, program, globals, printed, result>>

Run_CALL ==
    /\ Fetch(OpCode.CALL)
    /\ LET arg_count == Operand
           at == ip + 2
           m0 == peek_check(Machine, arg_count)
           callee == peek(Machine, arg_count)
       IN  IF m0.exc # ""
           THEN /\ Complete(m0, at)
                /\ UNCHANGED <<chunk, frames, heap>>
           ELSE IF Callable(callee)
           THEN LET p == pop_n(Machine, arg_count)
                    m1 == pop(p.m)
                    r == IF m1.exc = "" THEN HostCall(callee, Reverse(p.values))
                         ELSE Raises(m1.exc)
                IN  /\ Complete(IF r.exc = "" THEN push(m1, r.value)
                                ELSE raise(m1, r.exc), at)
                    /\ heap' = heap \o r.alloc
                    /\ UNCHANGED <<chunk, frames>>
           ELSE IF callee.t = "CompiledFunction"
           THEN IF arg_count # callee.fn.arity
                THEN /\ Throw("Expected " \o ToString(callee.fn.arity)
                              \o " arguments but got " \o ToString(arg_count), at)
                     /\ UNCHANGED <<stack, sp, chunk, frames, heap>>
                ELSE /\ frames' = Append(frames,
                            CallFrame(callee.fn, at, sp - arg_count, chunk))
                     /\ chunk' = callee.fn.chunk
                     /\ Complete(Machine, 0)
                     /\ UNCHANGED heap
           ELSE /\ Throw("Cannot call <class '" \o callee.t \o "'>", at)
                /\ UNCHANGED <<stack, sp, chunk, frames, heap>>
    /\ UNCHANGED <<front, program, globals, printed, result>>

\* A faulty RET that leaves the callee under the return value.
Run_RET_above_callee ==
    /\ Fetch(OpCode.RET)
    /\ LET value == popped(Machine)
           m1 == pop(Machine)
       IN  IF m1.exc # ""
           THEN /\ Complete(m1, ip + 1)
                /\ UNCHANGED <<chunk, frames, result>>
           ELSE IF Len(frames) = 0
           THEN /\ status' = "returned"
                /\ result' = value
                /\ stack' = m1.stack /\ sp' = m1.sp /\ ip' = ip + 1
                /\ UNCHANGED <<chunk, frames, error>>
           ELSE LET frame == frames[Len(frames)]
                IN  /\ frames' = SubSeq(frames, 1, Len(frames) - 1)
                    /\ chunk' = frame.chunk
                    /\ Complete(push([m1 EXCEPT !.sp = frame.stack_base],
                                     value), frame.ip)
                    /\ UNCHANGED result
    /\ UNCHANGED <<front, program, globals, heap, printed>>

Run_RET ==
    /\ Fetch(OpCode.RET)
    /\ LET value == popped(Machine)
           m1 == pop(Machine)
       IN  IF m1.exc # ""
           THEN /\ Complete(m1, ip + 1)
                /\ UNCHANGED <<chunk, frames, result>>
           ELSE IF Len(frames) = 0
           THEN /\ status' = "returned"
                /\ result' = value
                /\ stack' = m1.stack /\ sp' = m1.sp /\ ip' = ip + 1
                /\ UNCHANGED <<chunk, frames, error>>
           ELSE LET frame == frames[Len(frames)]
                IN  /\ frames' = SubSeq(frames, 1, Len(frames) - 1)
                    /\ chunk' = frame.chunk
                    /\ Complete(push([m1 EXCEPT !.sp = frame.stack_base - 1],
                                     value), frame.ip)
                    /\ UNCHANGED result
    /\ UNCHANGED <<front, program, globals, heap, printed>>

Run_ARRAY ==
    /\ Fetch(OpCode.ARRAY)
    /\ LET p == pop_n(Machine, Operand)
       IN  /\ Complete(push(p.m, ListRef(Len(heap) + 1)), ip + 2)
           /\ heap' = IF p.m.exc = ""
                      THEN Append(heap, ListObject(Reverse(p.values)))
                      ELSE heap
    /\ UNCHANGED <<front, program, chunk, globals, frames, printed, result>>

\* obj[index] resolves to this position of a list of length n (a negative
\* index counts from the end), or to 0 if the index is out of range
ListPos(index, n) ==
    IF 0 <= index /\ index < n THEN index + 1
    ELSE IF 0 - n <= index /\ index < 0 THEN index + n + 1
    ELSE 0

\* the exception `obj[index]` raises, "" if none, for the operand types
\* the programs of the model produce (no str is indexed)
SubscriptError(obj, index) ==
    CASE obj.t = "list" /\ IsInt(index) ->
            IF ListPos(index.i, Len(heap[obj.i].items)) = 0
            THEN "IndexError" ELSE ""
      [] obj.t = "list" /\ ~IsInt(index) -> "TypeError"
      [] obj.t \in {"NoneType", "int", "bool", "CompiledFunction", "method",
                    "RangeIterator", "ArrayIterator"} -> "TypeError"

Run_INDEX ==
    /\ Fetch(OpCode.INDEX)
    /\ LET index == popped(Machine)
           m1 == pop(Machine)
           obj == popped(m1)
           m2 == pop(m1)
           exc == IF m2.exc = "" THEN SubscriptError(obj, index) ELSE m2.exc
       IN  Complete(IF exc # "" THEN raise(m2, exc)
                    ELSE push(m2, heap[obj.i].items[
                                      ListPos(index.i, Len(heap[obj.i].items))]),
                    ip + 1)
    /\ UNCHANGED <<front, program, chunk, globals, frames, heap, printed, result>>

\* A faulty INDEX_SET: the element is replaced in a copy of the array.
Run_INDEX_SET_copy ==
    /\ Fetch(OpCode.INDEX_SET)
    /\ LET index == popped(Machine)
           m1 == pop(Machine)
           obj == popped(m1)
           m2 == pop(m1)
           value == popped(m2)
           m3 == pop(m2)
           exc == IF m3.exc = "" THEN SubscriptError(obj, index) ELSE m3.exc
       IN  /\ Complete(IF exc # "" THEN raise(m3, exc) ELSE push(m3, value),
                       ip + 1)
           /\ heap' = IF exc # "" THEN heap
                      ELSE Append(heap,
                                  [heap[obj.i] EXCEPT !.items[
                                      ListPos(index.i, Len(heap[obj.i].items))] =
                                          value])
    /\ UNCHANGED <<front, program, chunk, globals, frames, printed, result>>

Run_INDEX_SET ==
    /\ Fetch(OpCode.INDEX_SET)
    /\ LET index == popped(Machine)
           m1 == pop(Machine)
           obj == popped(m1)
           m2 == pop(m1)
           value == popped(m2)
           m3 == pop(m2)
           exc == IF m3.exc = "" THEN SubscriptError(obj, index) ELSE m3.exc
       IN  /\ Complete(IF exc # "" THEN raise(m3, exc) ELSE push(m3, value),
                       ip + 1)
           /\ heap' = IF exc # "" THEN heap
                      ELSE [heap EXCEPT ![obj.i].items[
                                ListPos(index.i, Len(heap[obj.i].items))] = value]
    /\ UNCHANGED <<front, program, chunk, globals, frames, printed, result>>

Run_POP ==
    /\ Fetch(OpCode.POP)
    /\ Complete(pop(Machine), ip + 1)
    /\ UNCHANGED <<front, program, chunk, globals, frames, heap, printed, result>>

Run_LEN ==
    /\ Fetch(OpCode.LEN)
    /\ LET obj == popped(Machine)
           m1 == pop(Machine)
       IN  Complete(IF m1.exc # "" THEN m1
                    ELSE IF obj.t = "list"
                    THEN push(m1, PyInt(Len(heap[obj.i].items)))
                    ELSE IF obj.t = "str" THEN push(m1, PyInt(Len(obj.s)))
                    ELSE raise(m1, "TypeError"),
                    ip + 1)
    /\ UNCHANGED <<front, program, chunk, globals, frames, heap, printed, result>>

Run_PUSH ==
    /\ Fetch(OpCode.PUSH)
    /\ LET value == popped(Machine)
           m1 == pop(Machine)
           array == popped(m1)
           m2 == pop(m1)
       IN  IF m2.exc # ""
           THEN Complete(m2, ip + 1) /\ UNCHANGED heap
           ELSE IF array.t # "list"
           THEN Complete(raise(m2, "AttributeError"), ip + 1) /\ UNCHANGED heap
           ELSE /\ heap' = [heap EXCEPT ![array.i].items = Append(@, value)]
                /\ Complete(push(m2, array), ip + 1)
    /\ UNCHANGED <<front, program, chunk, globals, frames, printed, result>>

Run_POP_ARRAY ==
    /\ Fetch(OpCode.POP_ARRAY)
    /\ LET array == popped(Machine)
           m1 == pop(Machine)
       IN  IF m1.exc # ""
           THEN Complete(m1, ip + 1) /\ UNCHANGED heap
           ELSE IF array.t # "list"
           THEN Complete(raise(m1, "AttributeError"), ip + 1) /\ UNCHANGED heap
           ELSE IF heap[array.i].items = <<>>
           THEN Complete(raise(m1, "IndexError"), ip + 1) /\ UNCHANGED heap
           ELSE LET items == heap[array.i].items
                IN  /\ heap' = [heap EXCEPT ![array.i].items =
                                               SubSeq(items, 1, Len(items) - 1)]
                    /\ Complete(push(m1, items[Len(items)]), ip + 1)
    /\ UNCHANGED <<front, program, chunk, globals, frames, printed, result>>

Run_PRINT ==
    /\ Fetch(OpCode.PRINT)
    /\ LET m1 == pop(Machine)
       IN  /\ Complete(m1, ip + 1)
           /\ printed' = IF m1.exc = "" THEN Append(printed, popped(Machine))
                         ELSE printed
    /\ UNCHANGED <<front, program, chunk, globals, frames, heap, result>>

Run_ITER ==
    /\ Fetch(OpCode.ITER)
    /\ LET obj == popped(Machine)
           m1 == pop(Machine)
       IN  IF m1.exc # ""
           THEN Complete(m1, ip + 1) /\ UNCHANGED heap
           ELSE IF obj.t \in {"RangeIterator", "ArrayIterator"}
           THEN Complete(push(m1, obj), ip + 1) /\ UNCHANGED heap
           ELSE IF obj.t = "list"
           THEN /\ Complete(push(m1, ArrayIteratorRef(Len(heap) + 1)), ip + 1)
                /\ heap' = Append(heap, ArrayIterator(obj.i))
           ELSE /\ Throw("Cannot iterate over <class '" \o obj.t \o "'>", ip + 1)
                /\ stack' = m1.stack /\ sp' = m1.sp
                /\ UNCHANGED heap
    /\ UNCHANGED <<front, program, chunk, globals, frames, printed, result>>

\* A faulty next(): the end of the range is included.
IteratorNext_inclusive(it) ==
    IF it.t = "RangeIterator"
    THEN LET o == heap[it.i]
         IN  IF ~(IsInt(o.current) /\ IsInt(o.end))
             THEN [exc |-> "TypeError", has_next |-> FALSE, value |-> PyNone,
                   object |-> o]
             ELSE IF o.current.i > o.end.i
             THEN [exc |-> "", has_next |-> FALSE, value |-> PyInt(0),
                   object |-> o]
             ELSE [exc |-> "", has_next |-> TRUE, value |-> o.current,
                   object |-> [o EXCEPT !.current = PyInt(o.current.i + 1)]]
    ELSE IF it.t = "ArrayIterator"
    THEN LET o == heap[it.i]
             array == heap[o.array].items
         IN  IF o.index >= Len(array)
             THEN [exc |-> "", has_next |-> FALSE, value |-> PyNone,
                   object |-> o]
             ELSE [exc |-> "", has_next |-> TRUE, value |-> array[o.index + 1],
                   object |-> [o EXCEPT !.index = @ + 1]]
    ELSE [exc |-> "AttributeError", has_next |-> FALSE, value |-> PyNone,
          object |-> PyNone]

\* iterator.next(): [exc, has_next, value, object], object being the
\* iterator object afterwards
IteratorNext(it) ==
    IF it.t = "RangeIterator"
    THEN LET o == heap[it.i]
         IN  IF ~(IsInt(o.current) /\ IsInt(o.end))
             THEN [exc |-> "TypeError", has_next |-> FALSE, value |-> PyNone,
                   object |-> o]
             ELSE IF o.current.i >= o.end.i
             THEN [exc |-> "", has_next |-> FALSE, value |-> PyInt(0),
                   object |-> o]
             ELSE [exc |-> "", has_next |-> TRUE, value |-> o.current,
                   object |-> [o EXCEPT !.current = PyInt(o.current.i + 1)]]
    ELSE IF it.t = "ArrayIterator"
    THEN LET o == heap[it.i]
             array == heap[o.array].items
         IN  IF o.index >= Len(array)
             THEN [exc |-> "", has_next |-> FALSE, value |-> PyNone,
                   object |-> o]
             ELSE [exc |-> "", has_next |-> TRUE, value |-> array[o.index + 1],
                   object |-> [o EXCEPT !.index = @ + 1]]
    ELSE [exc |-> "AttributeError", has_next |-> FALSE, value |-> PyNone,
          object |-> PyNone]

Run_ITER_NEXT ==
    /\ Fetch(OpCode.ITER_NEXT)
    /\ LET target == Operand
           m0 == peek_check(Machine, 0)
           iterator == peek(Machine, 0)
           r == IF m0.exc = "" THEN IteratorNext(iterator)
                ELSE [exc |-> m0.exc, has_next |-> FALSE, value |-> PyNone,
                      object |-> PyNone]
       IN  IF r.exc # ""
           THEN Complete(raise(m0, r.exc), ip + 2) /\ UNCHANGED heap
           ELSE /\ heap' = [heap EXCEPT ![iterator.i] = r.object]
                /\ IF r.has_next
                   THEN Complete(push(m0, r.value), ip + 2)
                   ELSE Complete(pop(m0), target)
    /\ UNCHANGED <<front, program, chunk, globals, frames, printed, result>>

Run_HALT ==
    /\ Fetch(OpCode.HALT)
    /\ status' = "halted"
    /\ result' = IF sp > 0 THEN peek(Machine, 0) ELSE PyNone
    /\ ip' = ip + 1
    /\ UNCHANGED <<front, program, chunk, stack, sp, globals, frames, heap, printed,
                   error>>

(***************************************************************************)
(* The programs run.  A program is chosen by a record                      *)
(*   [template, op, a, b, n, m]                                            *)
(* naming a source template and its parameters: op an operator, a and b    *)
(* indices into Literals, n and m integers.  Statements(p) is the AST the  *)
(* parser produces for the source text shown with each template, with the  *)
(* line of every node.                                                     *)
(***************************************************************************)
\* The literal operands: 0 1 2 "" "a" true false []
Literal(k, line) ==
    CASE k = 1 -> IntLiteral(0, line)
      [] k = 2 -> IntLiteral(1, line)
      [] k = 3 -> IntLiteral(2, line)
      [] k = 4 -> StringLiteral("", line)
      [] k = 5 -> StringLiteral("a", line)
      [] k = 6 -> BoolLiteral(TRUE, line)
      [] k = 7 -> BoolLiteral(FALSE, line)
      [] k = 8 -> ArrayLiteral(<<>>, line)

\* an integer literal; the parser reads a negative one as unary minus
IntExpr(n, line) ==
    IF n >= 0 THEN IntLiteral(n, line)
    ELSE UnaryExpr("NEG", IntLiteral(0 - n, line), line)

PrintStmt(expr, line) ==
    ExprStmt(CallExpr(Identifier("print", line), <<expr>>, line), line)

Call(name, args, line) == CallExpr(Identifier(name, line), args, line)

Range(n, line) == RangeExpr(IntLiteral(0, line), IntLiteral(n, line), line)

Program(template, op, a, b, n, m) ==
    [template |-> template, op |-> op, a |-> a, b |-> b, n |-> n, m |-> m]

\*   fn f1() end  ...  fn f<n>() end        (one per line)
\*   let x = 1
\*   print(x)
DeclsProgram(p) ==
    [k \in 1..p.n |-> FnDecl("f" \o ToString(k), <<>>, <<>>, k)]
    \o <<VarDecl("x", IntLiteral(1, p.n + 1), FALSE, p.n + 1),
         PrintStmt(Identifier("x", p.n + 2), p.n + 2)>>

\*   let s = 0
\*   for i in 0..<n> do s = s + i end
\*   print(s)
ForRangeProgram(p) ==
    <<VarDecl("s", IntLiteral(0, 1), FALSE, 1),
      ForStmt("i", Range(p.n, 2),
              <<Assignment(Identifier("s", 2),
                           BinaryExpr("ADD", Identifier("s", 2),
                                      Identifier("i", 2), 2), 2)>>, 2),
      PrintStmt(Identifier("s", 3), 3)>>

\*   let s = 0
\*   for x in [1, ..., <n>] do s = s + x end
\*   print(s)
ForArrayProgram(p) ==
    <<VarDecl("s", IntLiteral(0, 1), FALSE, 1),
      ForStmt("x", ArrayLiteral([k \in 1..p.n |-> IntLiteral(k, 2)], 2),
              <<Assignment(Identifier("s", 2),
                           BinaryExpr("ADD", Identifier("s", 2),
                                      Identifier("x", 2), 2), 2)>>, 2),
      PrintStmt(Identifier("s", 3), 3)>>

\*   let c = 0
\*   for i in 0..<n> do
\*     for j in 0..<m> do c = c + 1 end
\*   end
\*   print(c)
NestedForProgram(p) ==
    <<VarDecl("c", IntLiteral(0, 1), FALSE, 1),
      ForStmt("i", Range(p.n, 2),
              <<ForStmt("j", Range(p.m, 3),
                        <<Assignment(Identifier("c", 3),
                                     BinaryExpr("ADD", Identifier("c", 3),
                                                IntLiteral(1, 3), 3), 3)>>, 3)>>,
              2),
      PrintStmt(Identifier("c", 5), 5)>>

\*   fn f()
\*     for j in 0..<m> do end
\*   end
\*   let c = 0
\*   for i in 0..<n> do
\*     c = c + 1
\*     f()
\*   end
\*   print(c)
CallForProgram(p) ==
    <<FnDecl("f", <<>>, <<ForStmt("j", Range(p.m, 2), <<>>, 2)>>, 1),
      VarDecl("c", IntLiteral(0, 4), FALSE, 4),
      ForStmt("i", Range(p.n, 5),
              <<Assignment(Identifier("c", 6),
                           BinaryExpr("ADD", Identifier("c", 6),
                                      IntLiteral(1, 6), 6), 6),
                ExprStmt(Call("f", <<>>, 7), 7)>>, 5),
      PrintStmt(Identifier("c", 9), 9)>>

\*   fn f(d: int)
\*     let y = d
\*     if d > 0 then f(d - 1) end
\*     return y
\*   end
\*   let r = f(<n>)
\*   print(r)
FnLetProgram(p) ==
    <<FnDecl("f", <<"d">>,
             <<VarDecl("y", Identifier("d", 2), FALSE, 2),
               IfStmt(BinaryExpr("GT", Identifier("d", 3), IntLiteral(0, 3), 3),
                      <<ExprStmt(Call("f", <<BinaryExpr("SUB", Identifier("d", 3),
                                                        IntLiteral(1, 3), 3)>>, 3),
                                 3)>>,
                      <<>>, <<>>, 3),
               ReturnStmt(Identifier("y", 4), 4)>>, 1),
      VarDecl("r", Call("f", <<IntLiteral(p.n, 6)>>, 6), FALSE, 6),
      PrintStmt(Identifier("r", 7), 7)>>

\*   fn g()
\*     hit = hit + 1
\*     return <b>
\*   end
\*   let hit = 0
\*   let r = <a> <op> g()          (op: and, or)
\*   print(r)
ShortCircuitProgram(p) ==
    <<FnDecl("g", <<>>,
             <<Assignment(Identifier("hit", 2),
                          BinaryExpr("ADD", Identifier("hit", 2),
                                     IntLiteral(1, 2), 2), 2),
               ReturnStmt(Literal(p.b, 3), 3)>>, 1),
      VarDecl("hit", IntLiteral(0, 5), FALSE, 5),
      VarDecl("r", BinaryExpr(p.op, Literal(p.a, 6), Call("g", <<>>, 6), 6),
              FALSE, 6),
      PrintStmt(Identifier("r", 7), 7)>>

\*   let r = <a> <op> error_name   (op: and, or)
\*   print(r)
ShortUndefinedProgram(p) ==
    <<VarDecl("r", BinaryExpr(p.op, Literal(p.a, 1),
                              Identifier("error_name", 1), 1), FALSE, 1),
      PrintStmt(Identifier("r", 2), 2)>>

\*   let x = <a>
\*   print(x)
\*   print(zz)
UndefinedProgram(p) ==
    <<VarDecl("x", Literal(p.a, 1), FALSE, 1),
      PrintStmt(Identifier("x", 2), 2),
      PrintStmt(Identifier("zz", 3), 3)>>

\*   fn f(n: int) return f(n + 1) end
\*   f(0)
RecursionProgram(p) ==
    <<FnDecl("f", <<"n">>,
             <<ReturnStmt(Call("f", <<BinaryExpr("ADD", Identifier("n", 1),
                                                 IntLiteral(1, 1), 1)>>, 1), 1)>>,
             1),
      ExprStmt(Call("f", <<IntLiteral(0, 2)>>, 2), 2)>>

\*   fn f(n: int)
\*     while n > 0 do
\*       n = n - 1
\*     end
\*     return n
\*   end
\*   print(f(<n>))
CountdownProgram(p) ==
    <<FnDecl("f", <<"n">>,
             <<WhileStmt(BinaryExpr("GT", Identifier("n", 2), IntLiteral(0, 2), 2),
                         <<Assignment(Identifier("n", 3),
                                      BinaryExpr("SUB", Identifier("n", 3),
                                                 IntLiteral(1, 3), 3), 3)>>, 2),
               ReturnStmt(Identifier("n", 5), 5)>>, 1),
      PrintStmt(Call("f", <<IntLiteral(p.n, 7)>>, 7), 7)>>

\*   let a = [1, 2]
\*   print(a[<n>])
IndexProgram(p) ==
    <<VarDecl("a", ArrayLiteral(<<IntLiteral(1, 1), IntLiteral(2, 1)>>, 1),
              FALSE, 1),
      PrintStmt(IndexExpr(Identifier("a", 2), IntExpr(p.n, 2), 2), 2)>>

\*   let a = [1, 2]
\*   a[<n>] = 9
\*   print(a[0])
IndexSetProgram(p) ==
    <<VarDecl("a", ArrayLiteral(<<IntLiteral(1, 1), IntLiteral(2, 1)>>, 1),
              FALSE, 1),
      Assignment(IndexExpr(Identifier("a", 2), IntExpr(p.n, 2), 2),
                 IntLiteral(9, 2), 2),
      PrintStmt(IndexExpr(Identifier("a", 3), IntLiteral(0, 3), 3), 3)>>

\*   print(<a> <op> <b>)           (op: + - * / % == != < > <= >=)
ArithProgram(p) ==
    <<PrintStmt(BinaryExpr(p.op, Literal(p.a, 1), Literal(p.b, 1), 1), 1)>>

\*   print(<op> <a>)               (op: -, not)
UnaryProgram(p) ==
    <<PrintStmt(UnaryExpr(p.op, Literal(p.a, 1), 1), 1)>>

\*   fn f(a: int) return a end
\*   print(f(1, ..., <n>))                  (<n> arguments)
ArityProgram(p) ==
    <<FnDecl("f", <<"a">>, <<ReturnStmt(Identifier("a", 1), 1)>>, 1),
      PrintStmt(Call("f", [k \in 1..p.n |-> IntLiteral(k, 2)], 2), 2)>>

\*   let v = <a>
\*   v()
NotCallableProgram(p) ==
    <<VarDecl("v", Literal(p.a, 1), FALSE, 1),
      ExprStmt(Call("v", <<>>, 2), 2)>>

\*   fn f(a: int) return a end
\*   let x = <a>
\*   if x then
\*     print(1)
\*   elif zz then                           (op = "undefined")
\*   elif f() then                          (op = "arity")
\*     print(2)
\*   end
ElifErrorProgram(p) ==
    <<FnDecl("f", <<"a">>, <<ReturnStmt(Identifier("a", 1), 1)>>, 1),
      VarDecl("x", Literal(p.a, 2), FALSE, 2),
      IfStmt(Identifier("x", 3),
             <<PrintStmt(IntLiteral(1, 4), 4)>>,
             <<[condition |-> IF p.op = "undefined" THEN Identifier("zz", 5)
                              ELSE Call("f", <<>>, 5),
                body |-> <<PrintStmt(IntLiteral(2, 6), 6)>>]>>,
             <<>>, 3)>>

\* The declaration `fn g() return 1 end` (on line `line`) inside the block
\* named by op, followed by print(g()):
\*   fn outer() <decl> return g() end   print(outer())      (op = "fn")
\*   if true then <decl> end            print(g())          (op = "if")
\*   let w = 1  while w > 0 do <decl> w = w - 1 end  print(g())   (op = "while")
\*   for i in 0..1 do <decl> end        print(g())          (op = "for")
\*   <decl>                             print(g())          (op = "top")
NestedFnProgram(p) ==
    LET decl == FnDecl("g", <<>>, <<ReturnStmt(IntLiteral(1, 2), 2)>>, 2)
        use == PrintStmt(Call("g", <<>>, 5), 5)
    IN  CASE p.op = "fn" ->
                <<FnDecl("outer", <<>>,
                         <<decl, ReturnStmt(Call("g", <<>>, 3), 3)>>, 1),
                  PrintStmt(Call("outer", <<>>, 5), 5)>>
          [] p.op = "if" ->
                <<IfStmt(BoolLiteral(TRUE, 1), <<decl>>, <<>>, <<>>, 1), use>>
          [] p.op = "while" ->
                <<VarDecl("w", IntLiteral(1, 1), FALSE, 1),
                  WhileStmt(BinaryExpr("GT", Identifier("w", 1),
                                       IntLiteral(0, 1), 1),
                            <<decl,
                              Assignment(Identifier("w", 3),
                                         BinaryExpr("SUB", Identifier("w", 3),
                                                    IntLiteral(1, 3), 3), 3)>>,
                            1),
                  use>>
          [] p.op = "for" ->
                <<ForStmt("i", Range(1, 1), <<decl>>, 1), use>>
          [] p.op = "top" -> <<decl, use>>

\*   print(a(<n>))
\*   fn a(n: int)
\*     if n > 0 then return b(n - 1) end
\*     return 0
\*   end
\*   fn b(n: int) return a(n) end
ForwardCallProgram(p) ==
    <<PrintStmt(Call("a", <<IntLiteral(p.n, 1)>>, 1), 1),
      FnDecl("a", <<"n">>,
             <<IfStmt(BinaryExpr("GT", Identifier("n", 3), IntLiteral(0, 3), 3),
                      <<ReturnStmt(Call("b", <<BinaryExpr("SUB", Identifier("n", 3),
                                                          IntLiteral(1, 3), 3)>>,
                                        3), 3)>>,
                      <<>>, <<>>, 3),
               ReturnStmt(IntLiteral(0, 4), 4)>>, 2),
      FnDecl("b", <<"n">>,
             <<ReturnStmt(Call("a", <<Identifier("n", 6)>>, 6), 6)>>, 6)>>

\*   let r = __range__(1, ..., <n>)         (<n> arguments)
\*   print(1)
HostCallProgram(p) ==
    <<VarDecl("r", Call("__range__", [k \in 1..p.n |-> IntLiteral(k, 1)], 1),
              FALSE, 1),
      PrintStmt(IntLiteral(1, 2), 2)>>

\*   fn c1() e1 = e1 + 1  return <a> end
\*   fn c2() e2 = e2 + 1  return <b> end
\*   fn c3() e3 = e3 + 1  return <n> > 0 end
\*   let e1 = 0
\*   let e2 = 0
\*   let e3 = 0
\*   if c1() then
\*     print("then")
\*   elif c2() then
\*     print("elif1")
\*   elif c3() then
\*     print("elif2")
\*   else                                   (present iff <m> > 0)
\*     print("else")
\*   end
\*   print("after")
IfChainProgram(p) ==
    LET Counter(name, e, value, line) ==
            FnDecl(name, <<>>,
                   <<Assignment(Identifier(e, line),
                                BinaryExpr("ADD", Identifier(e, line),
                                           IntLiteral(1, line), line), line),
                     ReturnStmt(value, line)>>, line)
    IN  <<Counter("c1", "e1", Literal(p.a, 1), 1),
          Counter("c2", "e2", Literal(p.b, 2), 2),
          Counter("c3", "e3", BinaryExpr("GT", IntLiteral(p.n, 3),
                                         IntLiteral(0, 3), 3), 3),
          VarDecl("e1", IntLiteral(0, 4), FALSE, 4),
          VarDecl("e2", IntLiteral(0, 5), FALSE, 5),
          VarDecl("e3", IntLiteral(0, 6), FALSE, 6),
          IfStmt(Call("c1", <<>>, 7),
                 <<PrintStmt(StringLiteral("then", 8), 8)>>,
                 <<[condition |-> Call("c2", <<>>, 9),
                    body |-> <<PrintStmt(StringLiteral("elif1", 10), 10)>>],
                   [condition |-> Call("c3", <<>>, 11),
                    body |-> <<PrintStmt(StringLiteral("elif2", 12), 12)>>]>>,
                 IF p.m > 0 THEN <<PrintStmt(StringLiteral("else", 14), 14)>>
                 ELSE <<>>,
                 7),
          PrintStmt(StringLiteral("after", 16), 16)>>

\*   for i in <n>..<m> do
\*     print(i)
\*   end
\*   print("after")
RangeLoopProgram(p) ==
    <<ForStmt("i", RangeExpr(IntExpr(p.n, 1), IntExpr(p.m, 1), 1),
              <<PrintStmt(Identifier("i", 2), 2)>>, 1),
      PrintStmt(StringLiteral("after", 4), 4)>>

\*   let r = __range__(<n>, <m>)
\*   for i in r do
\*     print(i)
\*   end
\*   for j in r do
\*     print(j)
\*   end
\*   print("after")
RangeTwiceProgram(p) ==
    <<VarDecl("r", Call("__range__", <<IntExpr(p.n, 1), IntExpr(p.m, 1)>>, 1),
              FALSE, 1),
      ForStmt("i", Identifier("r", 2), <<PrintStmt(Identifier("i", 3), 3)>>, 2),
      ForStmt("j", Identifier("r", 5), <<PrintStmt(Identifier("j", 6), 6)>>, 5),
      PrintStmt(StringLiteral("after", 8), 8)>>

\*   fn set(x: array, i: int, v: int)
\*     x[i] = v
\*   end
\*   let a = [1, 2, 3]
\*   let b = a
\*   let c = [a]
\*   a[<n>] = 9     (op "self";  b[<n>] = 9 for "var",  set(a, <n>, 9) for
\*                   "arg",  c[0][<n>] = 9 for "elem")
\*   print(a[<n>])
\*   print(b[<n>])
\*   print(c[0][<n>])
AliasProgram(p) ==
    <<FnDecl("set", <<"x", "i", "v">>,
             <<Assignment(IndexExpr(Identifier("x", 2), Identifier("i", 2), 2),
                          Identifier("v", 2), 2)>>, 1),
      VarDecl("a", ArrayLiteral(<<IntLiteral(1, 4), IntLiteral(2, 4),
                                  IntLiteral(3, 4)>>, 4), FALSE, 4),
      VarDecl("b", Identifier("a", 5), FALSE, 5),
      VarDecl("c", ArrayLiteral(<<Identifier("a", 6)>>, 6), FALSE, 6),
      CASE p.op = "self" ->
              Assignment(IndexExpr(Identifier("a", 7), IntLiteral(p.n, 7), 7),
                         IntLiteral(9, 7), 7)
        [] p.op = "var" ->
              Assignment(IndexExpr(Identifier("b", 7), IntLiteral(p.n, 7), 7),
                         IntLiteral(9, 7), 7)
        [] p.op = "arg" ->
              ExprStmt(Call("set", <<Identifier("a", 7), IntLiteral(p.n, 7),
                                     IntLiteral(9, 7)>>, 7), 7)
        [] p.op = "elem" ->
              Assignment(IndexExpr(IndexExpr(Identifier("c", 7),
                                             IntLiteral(0, 7), 7),
                                   IntLiteral(p.n, 7), 7),
                         IntLiteral(9, 7), 7),
      PrintStmt(IndexExpr(Identifier("a", 8), IntLiteral(p.n, 8), 8), 8),
      PrintStmt(IndexExpr(Identifier("b", 9), IntLiteral(p.n, 9), 9), 9),
      PrintStmt(IndexExpr(IndexExpr(Identifier("c", 10), IntLiteral(0, 10), 10),
                          IntLiteral(p.n, 10), 10), 10)>>

\*   print(<n> / <m>)
DivProgram(p) ==
    <<PrintStmt(BinaryExpr("DIV", IntExpr(p.n, 1), IntExpr(p.m, 1), 1), 1)>>

\* if / elif / else, while and for nested in one another, in a function and
\* at top level; with p.op = "plain" a print stands in the place of the for
NestingProgram(p) ==
    <<FnDecl("f", <<"n">>,
             <<WhileStmt(BinaryExpr("GT", Identifier("n", 2), IntLiteral(0, 2), 2),
                  <<IfStmt(BinaryExpr("AND",
                                      BinaryExpr("EQ", Identifier("n", 3),
                                                 IntLiteral(2, 3), 3),
                                      Literal(p.a, 3), 3),
                           IF p.op = "plain"
                           THEN <<PrintStmt(StringLiteral("two", 4), 4)>>
                           ELSE <<ForStmt("i", RangeExpr(IntLiteral(0, 4),
                                                         Identifier("n", 4), 4),
                                          <<PrintStmt(Identifier("i", 5), 5)>>,
                                          4)>>,
                           <<[condition |->
                                BinaryExpr("OR",
                                           BinaryExpr("EQ", Identifier("n", 7),
                                                      IntLiteral(1, 7), 7),
                                           Literal(p.a, 7), 7),
                              body |-> <<PrintStmt(StringLiteral("one", 8), 8)>>]>>,
                           <<PrintStmt(StringLiteral("other", 10), 10)>>,
                           3),
                    Assignment(Identifier("n", 12),
                               BinaryExpr("SUB", Identifier("n", 12),
                                          IntLiteral(1, 12), 12), 12)>>, 2),
               ReturnStmt(Identifier("n", 14), 14)>>, 1),
      VarDecl("k", IntLiteral(p.n, 16), FALSE, 16),
      WhileStmt(BinaryExpr("GT", Identifier("k", 17), IntLiteral(0, 17), 17),
                <<IfStmt(BinaryExpr("EQ", Identifier("k", 18),
                                    IntLiteral(1, 18), 18),
                         <<PrintStmt(StringLiteral("a", 19), 19)>>,
                         <<>>, <<>>, 18),
                  Assignment(Identifier("k", 21),
                             BinaryExpr("SUB", Identifier("k", 21),
                                        IntLiteral(1, 21), 21), 21)>>, 17),
      PrintStmt(Call("f", <<IntLiteral(p.m, 23)>>, 23), 23),
      PrintStmt(StringLiteral("after", 24), 24)>>

\* calls nested in expressions with operands below the callee on the stack
\* (p.op = "calls"), a function that calls itself, loops and assigns to a
\* parameter (p.op = "slots"), and a return statement at top level
\* (p.op = "return")
FramesProgram(p) ==
    IF p.op = "slots"
    THEN <<FnDecl("h", <<"a", "b">>,
                  <<IfStmt(BinaryExpr("GT", Identifier("a", 2), IntLiteral(0, 2), 2),
                           <<PrintStmt(
                               Call("h", <<BinaryExpr("SUB", Identifier("a", 3),
                                                      IntLiteral(1, 3), 3),
                                           BinaryExpr("ADD", Identifier("b", 3),
                                                      IntLiteral(10, 3), 3)>>,
                                    3), 3)>>,
                           <<>>, <<>>, 2),
                    ForStmt("i", Range(2, 5), <<PrintStmt(Identifier("a", 6), 6)>>, 5),
                    Assignment(Identifier("a", 8),
                               BinaryExpr("ADD", Identifier("a", 8),
                                          IntLiteral(100, 8), 8), 8),
                    ReturnStmt(BinaryExpr("ADD",
                                          BinaryExpr("MUL", Identifier("a", 9),
                                                     IntLiteral(1000, 9), 9),
                                          Identifier("b", 9), 9), 9)>>, 1),
           PrintStmt(Call("h", <<IntLiteral(p.n, 11), IntLiteral(1, 11)>>, 11), 11)>>
    ELSE IF p.op = "calls"
    THEN <<FnDecl("g", <<"a", "b">>,
                  <<ReturnStmt(BinaryExpr("SUB", Identifier("a", 1),
                                          Identifier("b", 1), 1), 1)>>, 1),
           FnDecl("f", <<"x">>,
                  <<ReturnStmt(
                      BinaryExpr("ADD", IntLiteral(100, 2),
                                 BinaryExpr("MUL",
                                            Call("g", <<Identifier("x", 2),
                                                        IntLiteral(1, 2)>>, 2),
                                            IntLiteral(2, 2), 2), 2), 2)>>, 2),
           PrintStmt(BinaryExpr("ADD", IntLiteral(7, 3),
                                Call("f", <<IntLiteral(p.n, 3)>>, 3), 3), 3),
           PrintStmt(StringLiteral("after", 4), 4)>>
    ELSE <<PrintStmt(StringLiteral("x", 1), 1),
           ReturnStmt(IntLiteral(p.n, 2), 2),
           PrintStmt(StringLiteral("unreached", 3), 3)>>

\* a loop over an array whose body appends to the array (p.op = "push") or
\* removes from it (p.op = "pop")
ArrayLoopProgram(p) ==
    <<VarDecl("a", ArrayLiteral([k \in 1..p.n |-> IntLiteral(k, 1)], 1), FALSE, 1),
      ForStmt("x", Identifier("a", 2),
              IF p.op = "push"
              THEN <<ExprStmt(Call("push", <<Identifier("a", 3),
                                             Identifier("x", 3)>>, 3), 3)>>
              ELSE <<PrintStmt(Identifier("x", 3), 3),
                     ExprStmt(Call("pop", <<Identifier("a", 4)>>, 4), 4)>>,
              2),
      PrintStmt(Call("len", <<Identifier("a", 6)>>, 6), 6),
      PrintStmt(StringLiteral("after", 7), 7)>>

\* a loop over [10, 20] in a function whose parameter has the name of the
\* loop variable (p.op = "param") or another name (p.op = "other")
LoopVarProgram(p) ==
    <<FnDecl("f", <<IF p.op = "param" THEN "x" ELSE "y">>,
             <<ForStmt("x", ArrayLiteral(<<IntLiteral(10, 2), IntLiteral(20, 2)>>, 2),
                       <<PrintStmt(Identifier("x", 3), 3)>>, 2),
               ReturnStmt(IntLiteral(0, 5), 5)>>, 1),
      ExprStmt(Call("f", <<IntLiteral(p.n, 7)>>, 7), 7)>>

\*   const x = <n>      (let x = <n> if p.op = "let")
\*   x = <m>
\*   print(x)
ConstProgram(p) ==
    <<VarDecl("x", IntLiteral(p.n, 1), p.op = "const", 1),
      Assignment(Identifier("x", 2), IntLiteral(p.m, 2), 2),
      PrintStmt(Identifier("x", 3), 3)>>

Statements(p) ==
    CASE p.template = "decls" -> DeclsProgram(p)
      [] p.template = "for_range" -> ForRangeProgram(p)
      [] p.template = "for_array" -> ForArrayProgram(p)
      [] p.template = "nested_for" -> NestedForProgram(p)
      [] p.template = "call_for" -> CallForProgram(p)
      [] p.template = "fn_let" -> FnLetProgram(p)
      [] p.template = "short_circuit" -> ShortCircuitProgram(p)
      [] p.template = "short_undefined" -> ShortUndefinedProgram(p)
      [] p.template = "undefined" -> UndefinedProgram(p)
      [] p.template = "recursion" -> RecursionProgram(p)
      [] p.template = "countdown" -> CountdownProgram(p)
      [] p.template = "index" -> IndexProgram(p)
      [] p.template = "index_set" -> IndexSetProgram(p)
      [] p.template = "arith" -> ArithProgram(p)
      [] p.template = "unary" -> UnaryProgram(p)
      [] p.template = "arity" -> ArityProgram(p)
      [] p.template = "not_callable" -> NotCallableProgram(p)
      [] p.template = "elif_error" -> ElifErrorProgram(p)
      [] p.template = "nested_fn" -> NestedFnProgram(p)
      [] p.template = "forward" -> ForwardCallProgram(p)
      [] p.template = "host_call" -> HostCallProgram(p)
      [] p.template = "if_chain" -> IfChainProgram(p)
      [] p.template = "range_loop" -> RangeLoopProgram(p)
      [] p.template = "range_twice" -> RangeTwiceProgram(p)
      [] p.template = "alias" -> AliasProgram(p)
      [] p.template = "div" -> DivProgram(p)
      [] p.template = "nesting" -> NestingProgram(p)
      [] p.template = "frames" -> FramesProgram(p)
      [] p.template = "array_loop" -> ArrayLoopProgram(p)
      [] p.template = "loop_var" -> LoopVarProgram(p)
      [] p.template = "const" -> ConstProgram(p)

\* the operands Literal offers
LiteralIds == 1..8

ArithOps == {"ADD", "SUB", "MUL", "DIV", "MOD", "EQ", "NEQ", "LT", "GT",
             "LTE", "GTE"}

Programs ==
    {Program("decls", "", 0, 0, n, 0) : n \in 0..MaxFns}
    \cup {Program(t, "", 0, 0, n, 0) :
            t \in {"for_range", "for_array", "fn_let", "countdown"},
            n \in 0..MaxRange}
    \cup {Program(t, "", 0, 0, n, m) :
            t \in {"nested_for", "call_for"}, n \in 0..MaxRange,
            m \in 0..MaxRange}
    \cup {Program("short_circuit", op, a, b, 0, 0) :
            op \in {"AND", "OR"}, a \in LiteralIds, b \in LiteralIds}
    \cup {Program("short_undefined", op, a, 0, 0, 0) :
            op \in {"AND", "OR"}, a \in LiteralIds}
    \cup {Program("undefined", "", a, 0, 0, 0) : a \in LiteralIds}
    \cup {Program("recursion", "", 0, 0, 0, 0)}
    \cup {Program(t, "", 0, 0, n, 0) :
            t \in {"index", "index_set"}, n \in (0 - MaxIndex)..MaxIndex}
    \cup {Program("arith", op, a, b, 0, 0) :
            op \in ArithOps, a \in LiteralIds, b \in LiteralIds}
    \cup {Program("unary", op, a, 0, 0, 0) :
            op \in {"NEG", "NOT"}, a \in LiteralIds}
    \cup {Program(t, "", 0, 0, n, 0) :
            t \in {"arity", "host_call"}, n \in 0..MaxRange}
    \cup {Program("forward", "", 0, 0, n, 0) : n \in 0..1}
    \cup {Program("not_callable", "", a, 0, 0, 0) : a \in LiteralIds}
    \cup {Program("elif_error", op, a, 0, 0, 0) :
            op \in {"undefined", "arity"}, a \in LiteralIds}
    \cup {Program("nested_fn", op, 0, 0, 0, 0) :
            op \in {"fn", "if", "while", "for", "top"}}
    \cup {Program("if_chain", "", a, b, n, m) :
            a \in LiteralIds, b \in LiteralIds, n \in 0..1, m \in 0..1}
    \cup {Program(t, "", 0, 0, n, m) :
            t \in {"range_loop", "range_twice"}, n \in -1..MaxRange,
            m \in -1..MaxRange}
    \cup {Program("alias", op, 0, 0, n, 0) :
            op \in {"self", "var", "arg", "elem"}, n \in 0..2}
    \cup {Program("div", "", 0, 0, n, m) :
            n \in (0 - MaxOperand)..MaxOperand,
            m \in (0 - MaxOperand)..MaxOperand}
    \cup {Program("nesting", op, a, 0, n, m) :
            op \in {"for", "plain"}, a \in LiteralIds, n \in 0..MaxRange,
            m \in 0..MaxRange}
    \cup {Program("frames", op, 0, 0, n, 0) :
            op \in {"calls", "return"}, n \in 0..MaxRange}
    \cup {Program("frames", "slots", 0, 0, n, 0) : n \in 0..1}
    \cup {Program("array_loop", op, 0, 0, n, 0) :
            op \in {"push", "pop"}, n \in 0..(MaxRange + 1)}
    \cup {Program("loop_var", op, 0, 0, n, 0) :
            op \in {"param", "other"}, n \in 0..MaxRange}
    \cup {Program("const", op, 0, 0, n, m) :
            op \in {"const", "let"}, n \in 0..MaxRange, m \in 0..MaxRange}

(***************************************************************************)
(* VM.__init__ on the compiled program, and the specification.             *)
(***************************************************************************)
Init ==
    /\ program \in Programs
    /\ source = <<>>
    /\ repl = NoRepl
    /\ add_call = NoCall
    /\ lexer = [pos |-> 0, line |-> 1, col |-> 1]
    /\ tokens = <<>>
    /\ ast = Statements(program)
    /\ chunk = compile(ast)
    /\ ip = 0
    /\ stack = [k \in 1..STACK_SIZE |-> PyNone]
    /\ sp = 0
    /\ globals = ("__range__" :> HostCallable("__range__"))
    /\ frames = <<>>
    /\ heap = <<>>
    /\ printed = <<>>
    /\ status = "running"
    /\ result = PyNone
    /\ error = NoError

Next ==
    \/ Run_CONST
    \/ Run_TRUE
    \/ Run_FALSE
    \/ Run_LOAD
    \/ Run_STORE
    \/ Run_LOAD_GLOBAL
    \/ Run_STORE_GLOBAL
    \/ Run_ADD
    \/ Run_SUB
    \/ Run_MUL
    \/ Run_DIV
    \/ Run_MOD
    \/ Run_NEG
    \/ Run_EQ
    \/ Run_NEQ
    \/ Run_LT
    \/ Run_GT
    \/ Run_LTE
    \/ Run_GTE
    \/ Run_NOT
    \/ Run_JMP
    \/ Run_JMP_IF_FALSE
    \/ Run_JMP_IF_TRUE
    \/ Run_CALL
    \/ Run_RET
    \/ Run_ARRAY
    \/ Run_INDEX
    \/ Run_INDEX_SET
    \/ Run_POP
    \/ Run_PRINT
    \/ Run_LEN
    \/ Run_PUSH
    \/ Run_POP_ARRAY
    \/ Run_ITER
    \/ Run_ITER_NEXT
    \/ Run_HALT

Spec == Init /\ [][Next]_vars

\* run() executes one handler after another for as long as there is one to
\* execute.
FairSpec == Spec /\ WF_vars(Next)

(***************************************************************************)
(* compile_program(source), step by step: Lexer.tokenize reads the tokens, *)
(* Parser.parse_program parses them, Compiler.compile compiles the         *)
(* statements.  status is "lexing", "parsing", "compiling", then           *)
(* "compiled" (chunk is the Chunk returned) or "error" (error is the       *)
(* exception that left compile_program).  No VM runs.                      *)
(***************************************************************************)
\* the characters of a text
Chars(text) == [i \in 1..Len(text) |-> SubSeq(text, i, i)]

\* Every text of up to MaxSourceLen of these characters ...
Alphabet == {"0", "x", "e", ".", "=", "\"", "/", "*", "@", NUL}

ShortTexts == UNION {[1..n -> Alphabet] : n \in 1..MaxSourceLen}

\* ... a NUL character between two statements ...
NulTexts == {Chars("x = 1") \o <<NUL>> \o Chars(rest) : rest \in {"@", "\"a", "y"}}

\* ... the binary operators in pairs, and after a unary operator ...
BinaryOperators ==
    {"or", "and", "|", "^", "&", "==", "!=", "<", ">", "<=", ">=", "<<", ">>",
     "+", "-", "*", "/", "%"}

ChainTexts ==
    {Chars("a " \o op1 \o " b " \o op2 \o " c") :
        op1 \in BinaryOperators, op2 \in BinaryOperators}

UnaryTexts ==
    {Chars(u \o "a " \o op \o " b") : u \in {"-", "not "}, op \in BinaryOperators}

\* ... assignments to several kinds of target ...
AssignTexts ==
    {Chars(target \o " = 1") :
        target \in {"x", "x[0]", "x[0][1]", "1", "1.5", "'s'", "true", "a + b",
                    "-x", "f()", "(x)", "[1]"}}

\* ... calls of the built-in functions with 0, 1 and 2 arguments ...
CallTexts ==
    {Chars(name \o args) :
        name \in {"print", "len", "push", "pop", "time", "input", "f"},
        args \in {"()", "(a)", "(a, 1)"}}

\* ... number literals ...
NumberTexts ==
    {Chars(text) :
        text \in {"0x", "0x1F", "0x_", "0b", "0b101", "0o", "0o17", "1e",
                  "1e5", "1e+", "1e-2", "2.5e3", "1_000", "12.", "007"}}

\* ... the spellings of some numbers in base 2, 8, 10 and 16, with upper- or
\* lower-case letters, without an underscore (k = -1) or with one after
\* the first k digits (not before the first digit of a decimal numeral,
\* which would be an identifier) ...
NumberValues == {0, 1, 7, 8, 9, 10, 14, 15, 16, 30, 255, 256}

DigitChars(upper) ==
    <<"0", "1", "2", "3", "4", "5", "6", "7", "8", "9">>
    \o (IF upper THEN <<"A", "B", "C", "D", "E", "F">>
        ELSE <<"a", "b", "c", "d", "e", "f">>)

RECURSIVE DigitsOf(_, _, _)
DigitsOf(v, base, upper) ==
    (IF v < base THEN <<>> ELSE DigitsOf(v \div base, base, upper))
    \o <<DigitChars(upper)[(v % base) + 1]>>

BasePrefix(base, upper) ==
    CASE base = 10 -> <<>>
      [] base = 16 -> <<"0", IF upper THEN "X" ELSE "x">>
      [] base = 2 -> <<"0", IF upper THEN "B" ELSE "b">>
      [] base = 8 -> <<"0", IF upper THEN "O" ELSE "o">>

Spelling(s) ==
    LET digits == DigitsOf(s.v, s.base, s.upper)
    IN  BasePrefix(s.base, s.upper)
        \o (IF s.k < 0 THEN digits
            ELSE SubSeq(digits, 1, s.k) \o <<"_">>
                 \o SubSeq(digits, s.k + 1, Len(digits)))

Spellings ==
    UNION {{[v |-> v, base |-> base, upper |-> upper, k |-> k] :
                k \in (-1..Len(DigitsOf(v, base, upper)))
                      \ (IF base = 10 THEN {0} ELSE {})} :
           v \in NumberValues, base \in {2, 8, 10, 16}, upper \in BOOLEAN}

SpellTexts == {Spelling(s) : s \in Spellings}

\* ... a fraction or an exponent after a hexadecimal, binary or octal
\* numeral ...
BasedTexts ==
    {Chars(text) :
        text \in {"0x1e5", "0x1.5", "0XE+1", "0b1.5", "0b1e5", "0o7e2", "0o7.5"}}

\* ... and statements of every kind.
StatementTexts ==
    {Chars(text) :
        text \in {"let x: int = 1\nconst y = x",
                  "fn f(a: int, b: int) -> int\nreturn a + b\nend\nprint(f(1, 2))",
                  "fn f(a)\nend",
                  "if a then\nx = 1\nelif b then\nx = 2\nelse\nx = 3\nend",
                  "while a do\nx = [1, 2,]\nend",
                  "for i in 0..3 do\nprint(i)\nend",
                  "for i in xs do\nend // done",
                  "/* note */ return",
                  "let s = \"a\\n\" + 'b'",
                  "let s = \"a",
                  "if a\nend",
                  "x = (1"}}

\* ... every short run of operator characters ...
OperatorChars == {"<", ">", "=", "!", "-", ".", "+"}

OperatorTexts == UNION {[1..n -> OperatorChars] : n \in 1..MaxSourceLen}

\* ... and numerals next to a range operator
RangeTexts ==
    {Chars(text) : text \in {"1..11", "1.5..2", "a<<=1", "1...2", "0..n"}}

\* ... and texts with tabs, comments and strings over several lines
LayoutTexts ==
    {Chars(text) :
        text \in {"a\n\tb", "/* x\ny */ z", "// c\nq", "\"a\nb\" w",
                  "x /* u */ y\n  z", "'\\\n' k", "\t\t@ 1", "a /* \n\n",
                  "\"a\n\nb", "q \"\\"}}

Sources ==
    ShortTexts \cup NulTexts \cup ChainTexts \cup UnaryTexts \cup AssignTexts
    \cup CallTexts \cup NumberTexts \cup SpellTexts \cup BasedTexts
    \cup StatementTexts \cup OperatorTexts \cup RangeTexts \cup LayoutTexts

CompileInit ==
    /\ source \in Sources
    /\ repl = NoRepl
    /\ add_call = NoCall
    /\ lexer = NewLexer
    /\ tokens = <<>>
    /\ ast = <<>>
    /\ program = Program("source", "", 0, 0, 0, 0)
    /\ chunk = EmptyChunk
    /\ ip = 0
    /\ stack = [k \in 1..STACK_SIZE |-> PyNone]
    /\ sp = 0
    /\ globals = ("__range__" :> HostCallable("__range__"))
    /\ frames = <<>>
    /\ heap = <<>>
    /\ printed = <<>>
    /\ status = "lexing"
    /\ result = PyNone
    /\ error = NoError

machine == <<program, ip, stack, sp, globals, frames, heap, printed, result>>

\* One round of the loop of Lexer.tokenize.
Lexer_tokenize ==
    /\ status = "lexing"
    /\ Let(next_token(lexer), LAMBDA r :
           /\ lexer' = r.l
           /\ IF r.exc # ""
              THEN /\ status' = "error"
                   /\ error' = HostError(r.exc)
                   /\ UNCHANGED tokens
              ELSE /\ tokens' = Append(tokens, r.token)
                   /\ status' = IF r.token.type = "EOF" THEN "parsing"
                                ELSE "lexing"
                   /\ UNCHANGED error)
    /\ UNCHANGED <<source, ast, repl, add_call, chunk, machine>>

\* Parser(tokens).parse_program()
Parser_parse_program ==
    /\ status = "parsing"
    /\ Let(parse_program, LAMBDA r :
           IF r.err
           THEN /\ status' = "error"
                /\ error' = [type |-> "ParseError", message |-> r.message,
                             line |-> r.token.line]
                /\ UNCHANGED ast
           ELSE /\ ast' = r.node
                /\ status' = "compiling"
                /\ UNCHANGED error)
    /\ UNCHANGED <<source, lexer, tokens, repl, add_call, chunk, machine>>

\* Compiler().compile(program)
Compiler_compile ==
    /\ status = "compiling"
    /\ Let(compile_result(ast), LAMBDA c :
           IF c.exc # ""
           THEN /\ status' = "error"
                /\ error' = HostError(c.exc)
                /\ UNCHANGED chunk
           ELSE /\ chunk' = c.chunk
                /\ status' = "compiled"
                /\ UNCHANGED error)
    /\ UNCHANGED <<front, machine>>

CompileNext ==
    \/ Lexer_tokenize
    \/ Parser_parse_program
    \/ Compiler_compile

CompileSpec == CompileInit /\ [][CompileNext]_vars

\* tokenize, parse_program and compile run to their end without waiting:
\* weak fairness of CompileNext, written out.  CompileNext is enabled, and
\* changes status or tokens, exactly where status is one of the three below.
CompileBusy == status \in {"lexing", "parsing", "compiling"}

FairCompileSpec ==
    CompileSpec /\ ([]<>(~CompileBusy) \/ []<><<CompileNext>>_vars)

(***************************************************************************)
(* pseudocode.py, run_repl.  A line is the sequence of its characters.     *)
(* execute(source) compiles the text and runs it on a VM of its own, which *)
(* leaves nothing behind in run_repl: the model keeps the texts passed to  *)
(* it.  status is "reading" at the top of the loop and "exited" after it.  *)
(***************************************************************************)
MaxLines == 4

\* str.strip()
RECURSIVE lstrip(_)
lstrip(text) ==
    IF Len(text) > 0 /\ text[1] \in {" ", "\t", "\r", "\n"}
    THEN lstrip(SubSeq(text, 2, Len(text)))
    ELSE text

RECURSIVE rstrip(_)
rstrip(text) ==
    IF Len(text) > 0 /\ text[Len(text)] \in {" ", "\t", "\r", "\n"}
    THEN rstrip(SubSeq(text, 1, Len(text) - 1))
    ELSE text

strip(text) == rstrip(lstrip(text))

\* the prefix test, in the place of str.endswith
startswith(text, prefix) ==
    Len(prefix) <= Len(text) /\ SubSeq(text, 1, Len(prefix)) = prefix

\* str.endswith(suffix)
endswith(text, suffix) ==
    Len(suffix) <= Len(text)
    /\ SubSeq(text, Len(text) - Len(suffix) + 1, Len(text)) = suffix

\* '\n'.join(lines)
RECURSIVE join_lines(_)
join_lines(lines) ==
    IF Len(lines) = 0 THEN <<>>
    ELSE IF Len(lines) = 1 THEN lines[1]
    ELSE lines[1] \o <<"\n">> \o join_lines(Tail(lines))

\* What execute(source) prints through PRINT for the entries that the lines
\* of the model form, on a VM that starts with vm_globals.  `print(1)` prints
\* its literal, `print(x)` the global x (an undefined x is a VMRuntimeError,
\* which run_repl reports), `x = 1` prints nothing; every other entry is a
\* ParseError (`else`, `end`, an unclosed block) or reads the undefined x or
\* redo in its first statement, before any PRINT.
VM_run(text, vm_globals) ==
    CASE text = Chars("print(1)") -> <<PyInt(1)>>
      [] text = Chars("print(x)") ->
            IF "x" \in DOMAIN vm_globals THEN <<vm_globals["x"]>> ELSE <<>>
      [] OTHER -> <<>>

\* execute(source): VM(chunk).run(), the VM starting from the globals of
\* VM.__init__
execute(text) == VM_run(text, "__range__" :> HostCallable("__range__"))

\* what input() can return
Lines ==
    {Chars(l) : l \in {"if x then", "while x do", "else", "end", "  end ",
                       "print(1)", "x = redo", "x = 1", "print(x)", "",
                       "exit"}}

ReplInit ==
    /\ source = <<>>
    /\ repl = NoRepl
    /\ add_call = NoCall
    /\ lexer = NewLexer
    /\ tokens = <<>>
    /\ ast = <<>>
    /\ program = Program("repl", "", 0, 0, 0, 0)
    /\ chunk = EmptyChunk
    /\ ip = 0
    /\ stack = [k \in 1..STACK_SIZE |-> PyNone]
    /\ sp = 0
    /\ globals = ("__range__" :> HostCallable("__range__"))
    /\ frames = <<>>
    /\ heap = <<>>
    /\ printed = <<>>
    /\ status = "reading"
    /\ result = PyNone
    /\ error = NoError

\* One round of the loop in which input() returns a line.
run_repl ==
    /\ status = "reading"
    /\ repl.reads < MaxLines
    /\ \E line \in Lines :
        IF strip(line) = Chars("exit")
        THEN /\ status' = "exited"
             /\ repl' = [repl EXCEPT !.line = line, !.reads = @ + 1]
        ELSE /\ UNCHANGED status
             /\ LET buffer == Append(repl.buffer, line)
                IN  IF endswith(strip(line), Chars("then"))
                       \/ endswith(strip(line), Chars("do"))
                    THEN repl' = [repl EXCEPT !.line = line,
                                              !.reads = @ + 1,
                                              !.buffer = buffer,
                                              !.in_block = TRUE]
                    ELSE LET in_block == IF strip(line) = Chars("end")
                                         THEN FALSE ELSE repl.in_block
                         IN  IF in_block
                             THEN repl' = [repl EXCEPT !.line = line,
                                                       !.reads = @ + 1,
                                                       !.buffer = buffer]
                             ELSE repl' =
                                    [buffer |-> <<>>,
                                     in_block |-> FALSE,
                                     line |-> line,
                                     reads |-> repl.reads + 1,
                                     executed |->
                                        IF strip(join_lines(buffer)) = <<>>
                                        THEN repl.executed
                                        ELSE Append(repl.executed,
                                                    join_lines(buffer))]
    /\ printed' = IF Len(repl'.executed) > Len(repl.executed)
                  THEN printed \o execute(repl'.executed[Len(repl'.executed)])
                  ELSE printed
    /\ UNCHANGED <<source, lexer, tokens, ast, add_call, chunk, program, ip,
                   stack, sp, globals, frames, heap, result, error>>

\* input() raises EOFError
run_repl_EOFError ==
    /\ status = "reading"
    /\ status' = "exited"
    /\ UNCHANGED <<front, chunk, machine, error>>

\* input() raises KeyboardInterrupt
run_repl_KeyboardInterrupt ==
    /\ status = "reading"
    /\ repl' = [repl EXCEPT !.buffer = <<>>, !.in_block = FALSE]
    /\ UNCHANGED <<source, lexer, tokens, ast, add_call, chunk, machine, status,
                   error>>

ReplNext ==
    \/ run_repl
    \/ run_repl_EOFError
    \/ run_repl_KeyboardInterrupt

ReplSpec == ReplInit /\ [][ReplNext]_vars

(***************************************************************************)
(* Chunk.add_constant called on its own, on a pool that starts empty, with *)
(* values of every type the compiler adds and a bool.                      *)
(***************************************************************************)
MaxPool == 3

PoolValues ==
    {PyNone, PyInt(0), PyInt(1), PyBool(TRUE), PyStr("1"),
     PyFloat(FloatValue("1.0")), PyFloat(FloatValue("1.00")),
     PyFloat(FloatValue("10e-1")), PyFloat(FloatValue("0.5")),
     Fn(CompiledFunction("f", 0, EmptyChunk, 0))}

PoolInit ==
    /\ source = <<>>
    /\ repl = NoRepl
    /\ add_call = NoCall
    /\ lexer = NewLexer
    /\ tokens = <<>>
    /\ ast = <<>>
    /\ program = Program("pool", "", 0, 0, 0, 0)
    /\ chunk = EmptyChunk
    /\ ip = 0
    /\ stack = [k \in 1..STACK_SIZE |-> PyNone]
    /\ sp = 0
    /\ globals = ("__range__" :> HostCallable("__range__"))
    /\ frames = <<>>
    /\ heap = <<>>
    /\ printed = <<>>
    /\ status = "adding"
    /\ result = PyNone
    /\ error = NoError

\* chunk.add_constant(value)
Chunk_add_constant ==
    /\ status = "adding"
    /\ Len(chunk.constants) < MaxPool
    /\ \E value \in PoolValues :
          Let(add_constant(chunk, value), LAMBDA r :
              /\ chunk' = r.chunk
              /\ add_call' = [value |-> value, idx |-> r.idx])
    /\ UNCHANGED <<source, lexer, tokens, ast, repl, machine, status, error>>

PoolNext == Chunk_add_constant

PoolSpec == PoolInit /\ [][PoolNext]_vars

(***************************************************************************)
(* What the properties below observe.                                      *)
(***************************************************************************)
\* The value and the truth value Python gives the operand Literal(k, _).
LiteralTruthy(k) == k \in {2, 3, 5, 6}

\* v is the value of the operand Literal(k, _), with the type the literal
\* has (True is not 1, and a list literal is a list that is empty)
IsLiteralValue(v, k) ==
    CASE k = 1 -> v = PyInt(0)
      [] k = 2 -> v = PyInt(1)
      [] k = 3 -> v = PyInt(2)
      [] k = 4 -> v = PyStr("")
      [] k = 5 -> v = PyStr("a")
      [] k = 6 -> v = PyBool(TRUE)
      [] k = 7 -> v = PyBool(FALSE)
      [] k = 8 -> v.t = "list" /\ heap[v.i].items = <<>>

\* the left operand of `a and b` / `a or b` decides the result
LeftDecides(p) ==
    IF p.op = "AND" THEN ~LiteralTruthy(p.a) ELSE LiteralTruthy(p.a)

\* The offsets of the first and of the last code byte the compiler emitted
\* for source line `line` (chunk.lines holds the line of every byte).
FirstOffset(line) ==
    CHOOSE k \in 0..(Len(chunk.lines) - 1) :
        /\ chunk.lines[k + 1] = line
        /\ \A j \in 0..(k - 1) : chunk.lines[j + 1] # line

LastOffset(line) ==
    CHOOSE k \in 0..(Len(chunk.lines) - 1) :
        /\ chunk.lines[k + 1] = line
        /\ \A j \in (k + 1)..(Len(chunk.lines) - 1) : chunk.lines[j + 1] # line

\* the main program is about to run the instruction at `offset`
MainAt(offset) == status = "running" /\ frames = <<>> /\ ip = offset

(***************************************************************************)
(* C1.  Every program that runs to HALT without error has exactly one      *)
(* value on the value stack (sp = 1) and no open frame when HALT executes, *)
(* however many function declarations, statements or loops it contains.    *)
(* Refuted: a program without function declarations and loops halts with   *)
(* sp = 0, and every `fn` declaration and every loop iteration adds one.   *)
(***************************************************************************)
C1_OneValueAtHalt == status = "halted" => (sp = 1 /\ frames = <<>>)

(***************************************************************************)
(* C2.  After a for loop that ran to exhaustion the value stack is as deep *)
(* as it was before the iterable was evaluated, for any number of          *)
(* iterations.  In for_range and for_array the loop is the statement of    *)
(* line 2, entered with an empty stack, and line 3 follows it.             *)
(* Refuted: every iteration leaves one reference to the iterator behind.   *)
(***************************************************************************)
C2_ForLoopBalanced ==
    program.template \in {"for_range", "for_array"} =>
        /\ MainAt(FirstOffset(2)) => sp = 0
        /\ MainAt(FirstOffset(3)) => sp = 0

(***************************************************************************)
(* C3.  Every for loop has iterator storage of its own: a loop whose body  *)
(* calls a function that contains a for loop still visits all of its own   *)
(* elements.  In call_for the loop over 0..<n> counts its iterations in c  *)
(* and calls f, which loops over 0..<m>.                                   *)
(* Refuted: both loops keep their iterator in the global __iter_1.         *)
(***************************************************************************)
C3_LoopVisitsAllElements ==
    (program.template = "call_for" /\ status = "halted") =>
        globals["c"] = PyInt(program.n)

(***************************************************************************)
(* C4.  A let inside a function body binds a slot of the frame: it leaves  *)
(* the globals table unchanged and every activation has its own copy.  In  *)
(* fn_let, f(d) binds y = d, calls f(d - 1) while d > 0 and returns y, so  *)
(* f(<n>) is <n> and no global y exists.                                   *)
(* Refuted: y is stored with STORE_GLOBAL and shared by the activations.   *)
(***************************************************************************)
C4_LetInFunctionIsLocal ==
    program.template = "fn_let" =>
        /\ "y" \notin DOMAIN globals
        /\ status = "halted" => globals["r"] = PyInt(program.n)

(***************************************************************************)
(* C5.  `a and b` / `a or b`: the right operand is executed iff the left   *)
(* operand does not decide the result; the result is the left operand's    *)
(* value when it decided and the right operand's otherwise, uncoerced; and *)
(* the expression adds exactly one value to the stack on both paths.  In   *)
(* short_circuit the right operand is the call g(), which counts its       *)
(* executions in hit and returns <b>; the expression is the initialiser of *)
(* `let r` on line 6, entered with one value on the stack (the constant    *)
(* the declaration of g left) and stored by the STORE_GLOBAL two bytes     *)
(* before the last byte of the line.                                       *)
(***************************************************************************)
C5_ShortCircuit ==
    program.template = "short_circuit" =>
        /\ status = "halted" =>
              /\ globals["hit"] = PyInt(IF LeftDecides(program) THEN 0 ELSE 1)
              /\ IsLiteralValue(globals["r"],
                                IF LeftDecides(program) THEN program.a
                                ELSE program.b)
        /\ MainAt(FirstOffset(6)) => sp = 1
        /\ MainAt(LastOffset(6) - 2) => sp = 2

\* `1 and "a"` ran g() once and gave "a"
C5_Witness ==
    /\ program = Program("short_circuit", "AND", 2, 5, 0, 0)
    /\ status = "halted"
    /\ globals["hit"] = PyInt(1)
    /\ globals["r"] = PyStr("a")

(***************************************************************************)
(* C6.  In every reachable state 0 <= sp <= STACK_SIZE: no sequence of     *)
(* compiled instructions (calls, returns, loops, recursion) pops below an  *)
(* empty stack or pushes beyond the fixed capacity.  (It holds in the      *)
(* states of the runs that end in an error as well.)                       *)
(***************************************************************************)
C6_StackPointerInBounds == 0 <= sp /\ sp <= STACK_SIZE

\* a run with nested activations of f that completed without error
C6_Witness ==
    /\ program = Program("fn_let", "", 0, 0, MaxRange, 0)
    /\ status = "halted"
    /\ Len(printed) = 1

(***************************************************************************)
(* C7.  A program that needs more value-stack entries than the capacity    *)
(* (a push at sp = STACK_SIZE, as in unbounded recursion) ends run() with  *)
(* the VM's RuntimeError and with no other exception type.                 *)
(* Refuted: the list store of push raises IndexError.                      *)
(***************************************************************************)
C7_StackOverflowIsRuntimeError ==
    (program.template = "recursion" /\ status = "error") =>
        error.type = "RuntimeError"

(***************************************************************************)
(* C8.  INDEX with an index at or beyond the array's length ends run()     *)
(* with the VM's RuntimeError whose line is the line of the indexing       *)
(* expression (line 2 of index); no other exception type leaves run().     *)
(* Refuted: the list subscript raises IndexError.                          *)
(***************************************************************************)
C8_IndexOutOfRangeIsRuntimeError ==
    (program.template = "index" /\ status = "error") =>
        /\ error.type = "RuntimeError"
        /\ error.line = 2

(***************************************************************************)
(* C9.  An arithmetic opcode (ADD, SUB, MUL, DIV, MOD, NEG, comparisons)   *)
(* with invalid operands (a zero divisor, an unsupported combination of    *)
(* operand types) ends run() with the VM's RuntimeError carrying a message *)
(* and a line; no other exception type leaves run().                       *)
(* Refuted: the host operation raises ZeroDivisionError or TypeError.      *)
(***************************************************************************)
C9_ArithmeticErrorIsRuntimeError ==
    (program.template \in {"arith", "unary"} /\ status = "error") =>
        /\ error.type = "RuntimeError"
        /\ error.message # ""
        /\ error.line = 1

(***************************************************************************)
(* C10.  LOAD_GLOBAL of a name that is not bound in the globals table      *)
(* raises RuntimeError naming the variable, pushes nothing and leaves the  *)
(* globals table unchanged; and a name that is never read because a        *)
(* short-circuit operator skipped it raises no error (short_undefined,     *)
(* when the left operand decides).                                         *)
(***************************************************************************)
C10_UndefinedGlobal ==
    [][/\ (/\ Fetch(OpCode.LOAD_GLOBAL)
           /\ chunk.constants[Operand + 1].s \notin DOMAIN globals)
          => /\ status' = "error"
             /\ error'.type = "RuntimeError"
             /\ error'.message
                    = "Undefined variable: " \o chunk.constants[Operand + 1].s
             /\ stack' = stack
             /\ sp' = sp
             /\ globals' = globals
       /\ (program.template = "short_undefined" /\ LeftDecides(program))
          => status' # "error"
      ]_vars

\* print(zz) with zz unbound ended the run
C10_Witness ==
    /\ program.template = "undefined"
    /\ status = "error"
    /\ error.type = "RuntimeError"
    /\ error.message = "Undefined variable: zz"
    /\ sp = 0

(***************************************************************************)
(* C11.  CALL n whose callee is a compiled function of another arity       *)
(* raises RuntimeError and pushes no frame: the frame stack, the current   *)
(* chunk and the globals are as before the CALL.  CALL n whose callee is   *)
(* neither a host callable nor a compiled function raises RuntimeError     *)
(* too.                                                                    *)
(***************************************************************************)
C11_CallChecksCallee ==
    [][(Fetch(OpCode.CALL) /\ ~Callable(peek(Machine, Operand))) =>
           IF peek(Machine, Operand).t = "CompiledFunction"
           THEN peek(Machine, Operand).fn.arity # Operand =>
                   /\ status' = "error"
                   /\ error'.type = "RuntimeError"
                   /\ frames' = frames
                   /\ chunk' = chunk
                   /\ globals' = globals
           ELSE /\ status' = "error"
                /\ error'.type = "RuntimeError"
      ]_vars

\* f(1, 2) on `fn f(a: int)` ended the run in the main program
C11_Witness ==
    /\ program = Program("arity", "", 0, 0, 2, 0)
    /\ status = "error"
    /\ error.message = "Expected 1 arguments but got 2"
    /\ frames = <<>>
    /\ sp = 4

(***************************************************************************)
(* C12.  Every RuntimeError the VM raises carries the source line of the   *)
(* instruction that faulted, i.e. the line-table entry of that             *)
(* instruction, wherever the faulting expression occurs (an undefined      *)
(* variable or a wrong-arity call as the condition of an elif clause on a  *)
(* later line than its `if` included).                                     *)
(* Refuted: the line is read at the offset after the instruction, and the  *)
(* jump that follows an elif condition carries the line of the `if`.       *)
(***************************************************************************)
C12_ErrorLineIsFaultingLine ==
    [][(status = "running" /\ status' = "error"
            /\ error'.type = "RuntimeError") =>
           error'.line = chunk.lines[ip + 1]
      ]_vars

(***************************************************************************)
(* C13.  For every source text, compile_program returns a Chunk or raises  *)
(* ParseError: no exception of another type leaves the compilation.        *)
(***************************************************************************)
C13_OnlyParseErrorEscapes == status = "error" => error.type = "ParseError"

(***************************************************************************)
(* C14.  A text with an unterminated string literal, or with a character   *)
(* that starts no token outside strings and comments, is never compiled to *)
(* a Chunk.  LexicalError reads the text from character i on, mode telling *)
(* whether i is in code, in a string (mode is its quote), in a line        *)
(* comment or in a block comment; of the characters that start no token it *)
(* looks for "@" only.                                                     *)
(***************************************************************************)
RECURSIVE LexicalError(_, _)
LexicalError(i, mode) ==
    LET ch == source[i]
        ch2 == IF i < Len(source) THEN source[i + 1] ELSE ""
    IN  IF i > Len(source) THEN mode \in {"\"", "'"}
        ELSE CASE mode = "code" ->
                    CASE ch \in {"\"", "'"} -> LexicalError(i + 1, ch)
                      [] ch = "/" /\ ch2 = "/" -> LexicalError(i + 2, "line")
                      [] ch = "/" /\ ch2 = "*" -> LexicalError(i + 2, "block")
                      [] ch = "@" -> TRUE
                      [] OTHER -> LexicalError(i + 1, "code")
               [] mode = "line" ->
                    LexicalError(i + 1, IF ch = "\n" THEN "code" ELSE "line")
               [] mode = "block" ->
                    IF ch = "*" /\ ch2 = "/" THEN LexicalError(i + 2, "code")
                    ELSE LexicalError(i + 1, "block")
               [] OTHER ->
                    IF ch = "\\" THEN LexicalError(i + 2, mode)
                    ELSE LexicalError(i + 1, IF ch = mode THEN "code" ELSE mode)

C14_LexicalErrorsNotCompiled == status = "compiled" => ~LexicalError(1, "code")

(***************************************************************************)
(* C15.  A statement `expr = value` is accepted only when expr is an       *)
(* identifier or an index expression: no text whose statements include an  *)
(* assignment to another target is parsed and compiled.                    *)
(***************************************************************************)
C15_AssignmentTargets ==
    status \in {"compiling", "compiled"} =>
        \A i \in 1..Len(ast) :
            ast[i].kind = "Assignment" =>
                ast[i].target.kind \in {"Identifier", "IndexExpr"}

(***************************************************************************)
(* C16.  Every function declaration, at top level, inside another          *)
(* function's body or inside an if/while/for block, is compiled to a       *)
(* CompiledFunction in the constant pool of the enclosing chunk, and       *)
(* running the enclosing code binds it in the globals under its name so    *)
(* that it can be called.  In nested_fn the function g is declared in the  *)
(* block named by op and called after the block ran; it returns 1.         *)
(* Refuted: compile_stmt emits nothing for a declaration that is not a     *)
(* top-level statement, and the call fails with an undefined variable.     *)
(***************************************************************************)
C16_EveryDeclarationIsBound ==
    program.template = "nested_fn" =>
        /\ status # "error"
        /\ status = "halted" => printed = <<PyInt(1)>>
        /\ (program.op # "fn" /\ frames = <<>>) =>
              \E k \in 1..Len(chunk.constants) :
                  /\ chunk.constants[k].t = "CompiledFunction"
                  /\ chunk.constants[k].s = "g"

(***************************************************************************)
(* C17.  The stores that bind all top-level function names run before the  *)
(* first instruction of any other top-level statement, in declaration      *)
(* order: a top-level call succeeds when it stands before the declaration  *)
(* of the function, and two functions may call each other.  In forward     *)
(* the call a(<n>) is on line 1, before the declarations of a and of b,    *)
(* which call each other; the result is 0.                                 *)
(***************************************************************************)
C17_FunctionsBoundFirst ==
    program.template = "forward" =>
        /\ MainAt(FirstOffset(1)) => {"a", "b"} \subseteq DOMAIN globals
        /\ "b" \in DOMAIN globals => "a" \in DOMAIN globals
        /\ status # "error"
        /\ status = "halted" => printed = <<PyInt(0)>>

\* a(1) called b(0), which called a(0), and the result was printed
C17_Witness ==
    /\ program = Program("forward", "", 0, 0, 1, 0)
    /\ status = "halted"
    /\ printed = <<PyInt(0)>>
    /\ frames = <<>>

(***************************************************************************)
(* C18.  CALL n on a host callable invokes it exactly once with the n      *)
(* argument values in the order they were pushed, then replaces the callee *)
(* and its n arguments by the single returned value (sp decreases by n);   *)
(* it pushes no frame and changes neither the current chunk nor the        *)
(* instruction sequence.  The host callable of the VM is __range__: the    *)
(* invocation creates one RangeIterator(start, end) from the arguments     *)
(* start (pushed first) and end.                                           *)
(***************************************************************************)
C18_HostCall ==
    [][(/\ Fetch(OpCode.CALL)
        /\ Callable(peek(Machine, Operand))
        /\ status' # "error") =>
           /\ sp' = sp - Operand
           /\ ip' = ip + 2
           /\ frames' = frames
           /\ chunk' = chunk
           /\ Len(heap') = Len(heap) + 1
           /\ heap'[Len(heap')] = RangeIterator(peek(Machine, 1), peek(Machine, 0))
           /\ stack'[StackPos(sp' - 1)] = RangeIteratorRef(Len(heap'))
           /\ \A k \in 0..(sp' - 2) : stack'[StackPos(k)] = stack[StackPos(k)]
      ]_vars

\* __range__(0, MaxRange) returned the iterator of the loop of for_range
C18_Witness ==
    /\ program = Program("for_range", "", 0, 0, MaxRange, 0)
    /\ status = "running"
    /\ Len(heap) = 1
    /\ heap[1] = RangeIterator(PyInt(0), PyInt(MaxRange))
    /\ sp = 1
    /\ stack[StackPos(0)] = RangeIteratorRef(1)

(***************************************************************************)
(* C19.  The parse tree of a chain of binary operators follows the levels  *)
(* or(1) < and(2) < |(3) < ^(4) < &(5) < equality(6) < relational(7) <     *)
(* shift(8) < additive(9) < multiplicative(10): in `a op1 b op2 c` the     *)
(* operator of the higher level takes b, two operators of one level group  *)
(* to the left; and a unary minus or not takes its operand before any      *)
(* binary operator does.  Level and BinOpOf are the table of the language, *)
(* one entry per operator as it is written.                                *)
(***************************************************************************)
Level ==
    ("or" :> 1) @@ ("and" :> 2) @@ ("|" :> 3) @@ ("^" :> 4) @@ ("&" :> 5)
    @@ ("==" :> 6) @@ ("!=" :> 6)
    @@ ("<" :> 7) @@ (">" :> 7) @@ ("<=" :> 7) @@ (">=" :> 7)
    @@ ("<<" :> 8) @@ (">>" :> 8) @@ ("+" :> 9) @@ ("-" :> 9)
    @@ ("*" :> 10) @@ ("/" :> 10) @@ ("%" :> 10)

BinOpOf ==
    ("or" :> "OR") @@ ("and" :> "AND") @@ ("|" :> "BOR") @@ ("^" :> "BXOR")
    @@ ("&" :> "BAND") @@ ("==" :> "EQ") @@ ("!=" :> "NEQ")
    @@ ("<" :> "LT") @@ (">" :> "GT") @@ ("<=" :> "LTE") @@ (">=" :> "GTE")
    @@ ("<<" :> "SHL") @@ (">>" :> "SHR") @@ ("+" :> "ADD") @@ ("-" :> "SUB")
    @@ ("*" :> "MUL") @@ ("/" :> "DIV") @@ ("%" :> "MOD")

\* the tree the levels give `a op1 b op2 c`
ChainTree(op1, op2) ==
    IF Level[op2] > Level[op1]
    THEN BinaryExpr(BinOpOf[op1], Identifier("a", 1),
                    BinaryExpr(BinOpOf[op2], Identifier("b", 1),
                               Identifier("c", 1), 1), 1)
    ELSE BinaryExpr(BinOpOf[op2],
                    BinaryExpr(BinOpOf[op1], Identifier("a", 1),
                               Identifier("b", 1), 1),
                    Identifier("c", 1), 1)

\* the tree of `-a op b` (u is "-") and of `not a op b` (u is "not ")
UnaryTree(u, op) ==
    BinaryExpr(BinOpOf[op],
               UnaryExpr(IF u = "-" THEN "NEG" ELSE "NOT", Identifier("a", 1), 1),
               Identifier("b", 1), 1)

C19_Precedence ==
    /\ source \in ChainTexts \cup UnaryTexts => status # "error"
    /\ (source \in ChainTexts /\ status \in {"compiling", "compiled"}) =>
          \A op1 \in BinaryOperators, op2 \in BinaryOperators :
              source = Chars("a " \o op1 \o " b " \o op2 \o " c") =>
                  ast = <<ExprStmt(ChainTree(op1, op2), 1)>>
    /\ (source \in UnaryTexts /\ status \in {"compiling", "compiled"}) =>
          \A u \in {"-", "not "}, op \in BinaryOperators :
              source = Chars(u \o "a " \o op \o " b") =>
                  ast = <<ExprStmt(UnaryTree(u, op), 1)>>

\* `a - b - c` was parsed as ((a - b) - c), and compiled
C19_Witness ==
    /\ source = Chars("a - b - c")
    /\ status = "compiled"
    /\ ast = <<ExprStmt(BinaryExpr("SUB",
                                   BinaryExpr("SUB", Identifier("a", 1),
                                              Identifier("b", 1), 1),
                                   Identifier("c", 1), 1), 1)>>

(***************************************************************************)
(* C20.  An if/elif/else statement runs exactly one body or none: the      *)
(* then-body if the condition is truthy; otherwise the body of the first   *)
(* elif whose condition is truthy, the conditions of later elifs not being *)
(* evaluated; otherwise the else-body if present; and control continues    *)
(* after `end`.  In if_chain the conditions are the calls c1(), c2() and   *)
(* c3(), which count their evaluations in e1, e2 and e3 and return <a>,    *)
(* <b> and <n> > 0; every body prints its name, and "after" is printed     *)
(* after the statement.                                                    *)
(***************************************************************************)
C20_IfRunsOneBody ==
    (program.template = "if_chain" /\ status # "running") =>
        LET first == LiteralTruthy(program.a)
            second == ~first /\ LiteralTruthy(program.b)
            third == ~first /\ ~second /\ program.n > 0
            body == IF first THEN <<PyStr("then")>>
                    ELSE IF second THEN <<PyStr("elif1")>>
                    ELSE IF third THEN <<PyStr("elif2")>>
                    ELSE IF program.m > 0 THEN <<PyStr("else")>>
                    ELSE <<>>
        IN  /\ status = "halted"
            /\ printed = body \o <<PyStr("after")>>
            /\ globals["e1"] = PyInt(1)
            /\ globals["e2"] = PyInt(IF first THEN 0 ELSE 1)
            /\ globals["e3"] = PyInt(IF first \/ second THEN 0 ELSE 1)

\* the second elif was the first truthy condition of a chain with an else
C20_Witness ==
    /\ program = Program("if_chain", "", 1, 4, 1, 1)
    /\ status = "halted"
    /\ printed = <<PyStr("elif2"), PyStr("after")>>
    /\ globals["e3"] = PyInt(1)

(***************************************************************************)
(* C21.  `for i in a..b do body end` with integers a and b runs its body   *)
(* max(0, b - a) times with i = a, a + 1, ..., b - 1 in this order; and    *)
(* next() of a range iterator whose current has reached its end reports no *)
(* value and leaves the iterator as it is, every time.  range_loop prints  *)
(* i in the body; range_twice runs two loops over one iterator, the second *)
(* of them on the exhausted iterator.                                      *)
(***************************************************************************)
RangeValues(a, b) ==
    [k \in 1..(IF b > a THEN b - a ELSE 0) |-> PyInt(a + k - 1)]

C21_RangeLoop ==
    /\ []((program.template \in {"range_loop", "range_twice"}
           /\ status # "running") =>
              /\ status = "halted"
              /\ printed = RangeValues(program.n, program.m)
                           \o <<PyStr("after")>>)
    /\ [][(/\ Fetch(OpCode.ITER_NEXT)
           /\ sp > 0
           /\ peek(Machine, 0).t = "RangeIterator"
           /\ heap[peek(Machine, 0).i].current.i >= heap[peek(Machine, 0).i].end.i)
          => (/\ heap' = heap
              /\ sp' = sp - 1
              /\ ip' = Operand
              /\ status' = "running")]_vars

\* the second loop of range_twice found the iterator of 0..2 exhausted
C21_Witness ==
    /\ program = Program("range_twice", "", 0, 0, 0, 2)
    /\ status = "halted"
    /\ printed = <<PyInt(0), PyInt(1), PyStr("after")>>
    /\ \E a \in 1..Len(heap) : heap[a] = RangeIterator(PyInt(2), PyInt(2))

(***************************************************************************)
(* C22.  INDEX_SET with 0 <= i < len(a) replaces element i of the array    *)
(* object in place and changes nothing else of it nor any other object,    *)
(* and the new element is read through every reference to the array: in    *)
(* alias the array a is also the variable b, the element c[0] and the      *)
(* argument of set(), and the element <n> is written through one of them   *)
(* and read through a, b and c[0].                                         *)
(***************************************************************************)
C22_IndexSetInPlace ==
    /\ [][(/\ Fetch(OpCode.INDEX_SET)
           /\ sp >= 3
           /\ peek(Machine, 1).t = "list"
           /\ IsInt(peek(Machine, 0))
           /\ 0 <= peek(Machine, 0).i
           /\ peek(Machine, 0).i < Len(heap[peek(Machine, 1).i].items))
          => LET array == peek(Machine, 1).i
                 i == peek(Machine, 0).i
             IN  /\ Len(heap') = Len(heap)
                 /\ \A o \in 1..Len(heap) : o # array => heap'[o] = heap[o]
                 /\ Len(heap'[array].items) = Len(heap[array].items)
                 /\ heap'[array].items[i + 1] = peek(Machine, 2)
                 /\ \A k \in 1..Len(heap[array].items) :
                        k # i + 1 => heap'[array].items[k] = heap[array].items[k]
                 /\ sp' = sp - 2
                 /\ status' = "running"]_vars
    /\ []((program.template = "alias" /\ status # "running") =>
              /\ status = "halted"
              /\ printed = <<PyInt(9), PyInt(9), PyInt(9)>>
              /\ globals["a"] = globals["b"]
              /\ heap[globals["c"].i].items = <<globals["a"]>>
              /\ heap[globals["a"].i].items =
                    [<<PyInt(1), PyInt(2), PyInt(3)>> EXCEPT ![program.n + 1] = PyInt(9)])

\* set(a, 1, 9) wrote the array that a, b and c[0] refer to
C22_Witness ==
    /\ program = Program("alias", "arg", 0, 0, 1, 0)
    /\ status = "halted"
    /\ heap[globals["b"].i].items = <<PyInt(1), PyInt(9), PyInt(3)>>
    /\ printed = <<PyInt(9), PyInt(9), PyInt(9)>>

(***************************************************************************)
(* C23.  DIV on two integers with a nonzero divisor pushes the quotient    *)
(* rounded toward zero: -7 / 2 and 7 / -2 give -3.  div prints <n> / <m>.  *)
(***************************************************************************)
Abs(n) == IF n < 0 THEN 0 - n ELSE n

\* the quotient of a by b rounded toward zero
TruncatedQuotient(a, b) ==
    IF (a < 0) = (b < 0) THEN Abs(a) \div Abs(b) ELSE 0 - (Abs(a) \div Abs(b))

C23_IntegerDivisionTruncates ==
    (program.template = "div" /\ program.m # 0 /\ status # "running") =>
        /\ status = "halted"
        /\ printed = <<PyInt(TruncatedQuotient(program.n, program.m))>>

(***************************************************************************)
(* C24.  Every spelling of a number as an integer literal, in base 10, 16  *)
(* (0x), 2 (0b) or 8 (0o) and with an underscore in the digits, is read as *)
(* one INT token of that number; and the token read for a text that begins *)
(* with 0x, 0b or 0o is an INT, never a FLOAT.                             *)
(***************************************************************************)
C24_IntegerSpellings ==
    /\ source \in SpellTexts =>
          /\ status # "error"
          /\ status # "lexing" =>
                \A s \in Spellings :
                    source = Spelling(s) =>
                        tokens = <<Token("INT", s.v, 1, 1),
                                   Token("EOF", "", 1, Len(source) + 1)>>
    /\ (/\ Len(source) >= 2
        /\ source[1] = "0"
        /\ source[2] \in {"x", "X", "b", "B", "o", "O"}
        /\ Len(tokens) >= 1) => tokens[1].type = "INT"

\* 0b1111_1111 was read as INT 255
C24_Witness ==
    /\ source = Chars("0b1111_1111")
    /\ status = "compiled"
    /\ tokens[1] = Token("INT", 255, 1, 1)
    /\ Len(tokens) = 2


(***************************************************************************)
(* C25.  run_repl accumulates the lines it reads in a buffer.  After a     *)
(* line ending in `then` or `do` it keeps reading and executes nothing;    *)
(* when a line consisting of `end` is read it executes the accumulated     *)
(* buffer, all lines joined by newlines, and empties the buffer; a line    *)
(* read while not in a block is executed at once (a blank line has nothing *)
(* to execute, and `exit` ends the loop); any other line read in a block   *)
(* is kept in the buffer.                                                  *)
(***************************************************************************)
BlockOpeners == {Chars("if x then"), Chars("while x do"), Chars("x = redo")}

EndLines == {Chars("end"), Chars("  end ")}

BlankLines == {Chars("")}

ExitLines == {Chars("exit")}

C25_ReplBuffering ==
    [][repl'.reads = repl.reads + 1 =>
         LET line == repl'.line
             buffer == Append(repl.buffer, line)
         IN  /\ line \in Lines
             /\ (~repl.in_block) => repl.buffer = <<>>
             /\ CASE line \in ExitLines ->
                       /\ status' = "exited"
                       /\ repl'.executed = repl.executed
                  [] line \in BlockOpeners ->
                       /\ status' = "reading"
                       /\ repl'.in_block
                       /\ repl'.buffer = buffer
                       /\ repl'.executed = repl.executed
                  [] line \in EndLines ->
                       /\ status' = "reading"
                       /\ ~repl'.in_block
                       /\ repl'.buffer = <<>>
                       /\ repl'.executed =
                            Append(repl.executed, join_lines(buffer))
                  [] OTHER ->
                       /\ status' = "reading"
                       /\ repl'.in_block = repl.in_block
                       /\ IF repl.in_block
                          THEN /\ repl'.buffer = buffer
                               /\ repl'.executed = repl.executed
                          ELSE /\ repl'.buffer = <<>>
                               /\ repl'.executed =
                                    IF line \in BlankLines THEN repl.executed
                                    ELSE Append(repl.executed, line)]_vars

C25_Witness ==
    /\ status = "reading"
    /\ repl.reads = 4
    /\ repl.line = Chars("end")
    /\ repl.buffer = <<>>
    /\ ~repl.in_block
    /\ repl.executed = <<Chars("print(1)"),
                         Chars("if x then\nprint(1)\nend")>>


(***************************************************************************)
(* C26.  In every chunk the compiler emits, the main chunk and the chunks  *)
(* of the functions in its constants, the operand of each JMP,             *)
(* JMP_IF_FALSE, JMP_IF_TRUE and ITER_NEXT is an offset of the same chunk  *)
(* at which an opcode begins, for forward and for backward jumps and       *)
(* whatever the nesting of the statements.                                 *)
(***************************************************************************)
OperandOps ==
    {OpCode.CONST, OpCode.LOAD, OpCode.STORE, OpCode.LOAD_GLOBAL,
     OpCode.STORE_GLOBAL, OpCode.JMP, OpCode.JMP_IF_FALSE, OpCode.JMP_IF_TRUE,
     OpCode.CALL, OpCode.ARRAY, OpCode.ITER_NEXT}

JumpOps ==
    {OpCode.JMP, OpCode.JMP_IF_FALSE, OpCode.JMP_IF_TRUE, OpCode.ITER_NEXT}

\* the offsets of code at which an opcode begins, from offset k on
RECURSIVE OpcodeStarts(_, _)
OpcodeStarts(code, k) ==
    IF k >= Len(code) THEN {}
    ELSE {k} \cup OpcodeStarts(code, IF code[k + 1] \in OperandOps
                                     THEN k + 2 ELSE k + 1)

\* a chunk and the chunks of the functions in its constants
RECURSIVE ChunksOf(_)
ChunksOf(c) ==
    {c} \cup UNION {ChunksOf(c.constants[i].fn.chunk) :
                      i \in {j \in 1..Len(c.constants) :
                               c.constants[j].t = "CompiledFunction"}}

JumpsLandOnOpcodes(c) ==
    Let(OpcodeStarts(c.code, 0), LAMBDA starts :
        \A k \in starts :
            c.code[k + 1] \in JumpOps => c.code[k + 2] \in starts)

C26_JumpTargets == \A c \in ChunksOf(chunk) : JumpsLandOnOpcodes(c)

C26_Witness ==
    /\ program.template = "nesting"
    /\ program.op = "for"
    /\ ip = 0
    /\ frames = <<>>
    /\ Cardinality(ChunksOf(chunk)) = 2
    /\ \A c \in ChunksOf(chunk) :
         Let(OpcodeStarts(c.code, 0), LAMBDA starts :
             /\ \E k \in starts : c.code[k + 1] = OpCode.JMP /\ c.code[k + 2] < k
             /\ \E k \in starts : c.code[k + 1] = OpCode.JMP /\ c.code[k + 2] > k
             /\ \E k \in starts :
                   c.code[k + 1] = OpCode.JMP_IF_FALSE /\ c.code[k + 2] > k)
    /\ \E c \in ChunksOf(chunk) :
         \E k \in OpcodeStarts(c.code, 0) :
             /\ c.code[k + 1] = OpCode.ITER_NEXT
             /\ c.code[k + 2] \in OpcodeStarts(c.code, 0)
    /\ \E c \in ChunksOf(chunk) :
         \E k \in OpcodeStarts(c.code, 0) :
             /\ c.code[k + 1] = OpCode.JMP_IF_TRUE
             /\ c.code[k + 2] \in OpcodeStarts(c.code, 0)


(***************************************************************************)
(* C27.  Every if / elif / else statement and every while statement is     *)
(* stack-neutral on every path through it: the condition is popped exactly *)
(* once, so at the first instruction of the statement, of each condition,  *)
(* of each statement of its bodies and of the statement after it, the      *)
(* stack holds what it held when the statements of the enclosing code      *)
(* began: at top level the values the function declarations leave, in a   *)
(* function the arguments.  The statements observed have bodies without a  *)
(* for loop, which leaves a value on the stack for each of its passes.     *)
(***************************************************************************)
\* the lines on which a statement or an elif condition begins
StatementLines ==
    CASE program.template = "nesting" /\ program.op = "plain" ->
            {2, 3, 4, 7, 8, 10, 12, 14, 16, 17, 18, 19, 21, 23, 24}
      [] program.template = "if_chain" -> {7, 8, 9, 10, 11, 12, 14, 16}
      [] program.template = "countdown" -> {2, 3, 5, 7}
      [] OTHER -> {}

\* ip is at the first instruction of the line in the chunk being run
AtLineStart(line) ==
    /\ status = "running"
    /\ ip < Len(chunk.lines)
    /\ chunk.lines[ip + 1] = line
    /\ \A j \in 0..(ip - 1) : chunk.lines[j + 1] # line

\* the depth of the stack when the statements of the running code began:
\* CONST; STORE_GLOBAL of a function declaration leaves the function
BaseDepth ==
    IF frames = <<>>
    THEN Len(SelectSeq(ast, LAMBDA s : s.kind = "FnDecl"))
    ELSE frames[Len(frames)].stack_base + frames[Len(frames)].fn.arity

Unchanged_below(position) ==
    \A k \in 1..position : stack'[k] = stack[k]

C28_CallReturn ==
    /\ [][/\ Len(frames') = Len(frames) + 1 =>
                LET frame == frames'[Len(frames')]
                IN  /\ chunk.code[ip + 1] = OpCode.CALL
                    /\ SubSeq(frames', 1, Len(frames)) = frames
                    /\ frame.chunk = chunk
                    /\ frame.ip = ip + 2
                    /\ frame.stack_base = sp - Operand
                    /\ stack[frame.stack_base].t = "CompiledFunction"
                    /\ chunk' = stack[frame.stack_base].fn.chunk
                    /\ ip' = 0
                    /\ stack' = stack /\ sp' = sp
          /\ Len(frames') = Len(frames) - 1 =>
                LET frame == frames[Len(frames)]
                IN  /\ chunk.code[ip + 1] = OpCode.RET
                    /\ status' = "running"
                    /\ frames' = SubSeq(frames, 1, Len(frames) - 1)
                    /\ chunk' = frame.chunk
                    /\ ip' = frame.ip
                    /\ sp' = frame.stack_base
                    /\ stack'[sp'] = stack[sp]
                    /\ Unchanged_below(frame.stack_base - 1)
          /\ Len(frames') = Len(frames) =>
                /\ frames' = frames
                /\ \A d \in 1..Len(frames) :
                       Unchanged_below(frames[d].stack_base - 1)
          /\ Len(frames') \in {Len(frames) - 1, Len(frames), Len(frames) + 1}
          /\ (status = "running" /\ frames = <<>>
              /\ ip < Len(chunk.code) /\ chunk.code[ip + 1] = OpCode.RET
              /\ sp > 0) =>
                /\ status' = "returned"
                /\ result' = stack[sp]]_vars
    /\ [](program.template = "frames" /\ status # "running" =>
            IF program.op = "slots" THEN TRUE
            ELSE IF program.op = "calls"
            THEN /\ status = "halted"
                 /\ printed = <<PyInt(7 + 100 + (program.n - 1) * 2),
                                PyStr("after")>>
            ELSE /\ status = "returned"
                 /\ result = PyInt(program.n)
                 /\ printed = <<PyStr("x")>>)

C28_Witness ==
    /\ program.template = "frames"
    /\ program.op = "calls"
    /\ program.n = 2
    /\ status = "running"
    /\ Len(frames) = 1
    /\ frames[1].fn.name = "f"
    /\ stack[frames[1].stack_base - 1] = PyInt(7)
    /\ stack[sp - 1] = PyInt(100)
    /\ stack[sp] = PyInt(1)
    /\ chunk.code[ip + 1] = OpCode.CONST

C28_WitnessReturned ==
    /\ program.template = "frames"
    /\ program.op = "return"
    /\ status = "returned"
    /\ result = PyInt(2)


(***************************************************************************)
(* C29.  While a frame is open, its slot k (k < arity) is the stack        *)
(* position stack_base + k: it holds the k-th argument when the function   *)
(* is entered, LOAD k reads it, and its content changes only through a     *)
(* STORE k executed in that activation; calls made by the function, the    *)
(* function calling itself, loops and expressions never overwrite it.      *)
(***************************************************************************)
\* the entry of the stack that is slot k of the frame
Slot(frame, k) == frame.stack_base + k + 1

\* what h(a, b) of the program "slots" prints, and what it returns
RECURSIVE SlotsPrinted(_, _)
SlotsPrinted(a, b) ==
    (IF a > 0
     THEN SlotsPrinted(a - 1, b + 10)
          \o <<PyInt((a - 1 + 100) * 1000 + b + 10)>>
     ELSE <<>>)
    \o <<PyInt(a), PyInt(a)>>

C30_FrameLimit == Len(frames) <= MAX_FRAMES


(***************************************************************************)
(* C31.  Chunk.add_constant is idempotent and append-only.  Adding a value *)
(* that the pool holds with the same value and the same runtime type       *)
(* returns the index of that entry and leaves the pool as it is; any other *)
(* value is appended and the new last index returned; the entries already  *)
(* in the pool never move or change; int 1 and float 1.0, equal values of  *)
(* different types, get distinct indices.                                  *)
(***************************************************************************)
\* the runtime type and the value of each value added, as Python has them
ValueOf ==
    (PyNone :> <<"NoneType", "None">>) @@ (PyInt(0) :> <<"int", "0">>)
    @@ (PyInt(1) :> <<"int", "1">>) @@ (PyBool(TRUE) :> <<"bool", "1">>)
    @@ (PyStr("1") :> <<"str", "'1'">>)
    @@ (PyFloat(FloatValue("1.0")) :> <<"float", "1">>)
    @@ (PyFloat(FloatValue("0.5")) :> <<"float", "1/2">>)
    @@ (Fn(CompiledFunction("f", 0, EmptyChunk, 0)) :> <<"CompiledFunction", "f">>)

C31_AddConstant ==
    /\ [][add_call' # add_call \/ chunk' # chunk =>
            LET value == add_call'.value
                idx == add_call'.idx
                old == chunk.constants
                new == chunk'.constants
                held == {k \in 1..Len(old) : ValueOf[old[k]] = ValueOf[value]}
            IN  /\ SubSeq(new, 1, Len(old)) = old
                /\ IF held # {}
                   THEN new = old /\ idx + 1 \in held
                   ELSE new = Append(old, value) /\ idx = Len(new) - 1]_vars
    /\ [](\A j, k \in 1..Len(chunk.constants) :
             ValueOf[chunk.constants[j]] = ValueOf[chunk.constants[k]] => j = k)

C31_Witness ==
    /\ status = "adding"
    /\ chunk.constants = <<PyInt(1), PyFloat(FloatValue("1.0"))>>
    /\ add_call = [value |-> PyFloat(FloatValue("1.00")), idx |-> 1]


(***************************************************************************)
(* C32.  At an operator position the lexer applies longest match: when the *)
(* next two characters form one of == != <= >= -> .. << >> it emits one    *)
(* token of that kind and consumes both, and only otherwise a token for    *)
(* the single character.  `<<=` lexes as SHL, ASSIGN and `1..11` as INT 1, *)
(* RANGE, INT 11, not as a float.                                          *)
(***************************************************************************)
TwoCharKinds ==
    ("==" :> "EQ") @@ ("!=" :> "NEQ") @@ ("<=" :> "LTE") @@ (">=" :> "GTE")
    @@ ("->" :> "ARROW") @@ (".." :> "RANGE") @@ ("<<" :> "SHL")
    @@ (">>" :> "SHR")

OneCharKinds ==
    ("<" :> "LT") @@ (">" :> "GT") @@ ("=" :> "ASSIGN") @@ ("-" :> "MINUS")
    @@ ("+" :> "PLUS") @@ ("!" :> "ERROR") @@ ("." :> "ERROR")

\* the types of the tokens read so far
TokenTypes == [k \in 1..Len(tokens) |-> tokens[k].type]

C32_LongestMatch ==
    /\ [][(status = "lexing" /\ lexer.pos < Len(source)
           /\ source[lexer.pos + 1] \in OperatorChars) =>
            LET ch == source[lexer.pos + 1]
                two == IF lexer.pos + 1 < Len(source)
                       THEN ch \o source[lexer.pos + 2] ELSE ch
                token == tokens'[Len(tokens')]
            IN  /\ Len(tokens') = Len(tokens) + 1
                /\ SubSeq(tokens', 1, Len(tokens)) = tokens
                /\ token.line = lexer.line /\ token.col = lexer.col
                /\ IF two \in DOMAIN TwoCharKinds
                   THEN /\ token.type = TwoCharKinds[two]
                        /\ token.value = two
                        /\ lexer'.pos = lexer.pos + 2
                   ELSE /\ token.type = OneCharKinds[ch]
                        /\ lexer'.pos = lexer.pos + 1]_vars
    /\ [](status \notin {"lexing", "error"} =>
            /\ source = Chars("<<=") => TokenTypes = <<"SHL", "ASSIGN", "EOF">>
            /\ source = Chars("a<<=1") =>
                 TokenTypes = <<"IDENT", "SHL", "ASSIGN", "INT", "EOF">>
            /\ source = Chars("1..11") =>
                 /\ TokenTypes = <<"INT", "RANGE", "INT", "EOF">>
                 /\ tokens[1].value = 1 /\ tokens[3].value = 11
            /\ source = Chars("1.5..2") =>
                 TokenTypes = <<"FLOAT", "RANGE", "INT", "EOF">>)
    /\ [](source \in OperatorTexts \cup RangeTexts =>
            status # "error" \/ error.type = "ParseError")

C32_Witness ==
    /\ source = Chars("1..11")
    /\ status \notin {"lexing", "parsing"}
    /\ TokenTypes = <<"INT", "RANGE", "INT", "EOF">>

C32_WitnessShift ==
    /\ source = Chars("<<=")
    /\ status # "lexing"
    /\ TokenTypes = <<"SHL", "ASSIGN", "EOF">>


(***************************************************************************)
(* C33.  Every token carries the 1-based line and column of its first      *)
(* character, the character at which the lexer stands once whitespace and  *)
(* comments are skipped (for EOF, the place where reading stopped): the    *)
(* line is one more than the number of newlines before it and the column   *)
(* one more than the number of characters since the last of them, tabs and *)
(* the characters of comments and of strings over several lines included.  *)
(***************************************************************************)
\* the newlines among the first pos characters of the text
NewlinesBefore(pos) ==
    {k \in 1..pos : k <= Len(source) /\ source[k] = "\n"}

LineOf(pos) == 1 + Cardinality(NewlinesBefore(pos))

ColOf(pos) ==
    IF NewlinesBefore(pos) = {} THEN pos + 1
    ELSE pos + 1 - (CHOOSE k \in NewlinesBefore(pos) :
                       \A j \in NewlinesBefore(pos) : j <= k)

C33_TokenPositions ==
    /\ [](lexer.line = LineOf(lexer.pos) /\ lexer.col = ColOf(lexer.pos))
    /\ [][Len(tokens') = Len(tokens) + 1 =>
            LET start == skip_comments(skip_whitespace(lexer)).pos
                token == tokens'[Len(tokens')]
            IN  /\ token.line = LineOf(start)
                /\ token.col = ColOf(start)]_vars
    /\ [](status \notin {"lexing", "error"} =>
            /\ source = Chars("a\n\tb") =>
                 SubSeq(tokens, 1, 3) = <<Token("IDENT", "a", 1, 1),
                                          Token("NEWLINE", "\n", 1, 2),
                                          Token("IDENT", "b", 2, 2)>>
            /\ source = Chars("/* x\ny */ z") =>
                 tokens[1] = Token("IDENT", "z", 2, 6)
            /\ source = Chars("\"a\nb\" w") =>
                 /\ tokens[1] = Token("STRING", "a\nb", 1, 1)
                 /\ tokens[2] = Token("IDENT", "w", 2, 4)
            /\ source = Chars("// c\nq") =>
                 /\ tokens[1] = Token("NEWLINE", "\n", 1, 5)
                 /\ tokens[2] = Token("IDENT", "q", 2, 1))

C33_Witness ==
    /\ source = Chars("\"a\nb\" w")
    /\ status # "lexing"
    /\ Len(tokens) = 3
    /\ tokens[2] = Token("IDENT", "w", 2, 4)


(***************************************************************************)
(* C34.  A for loop over an array whose body terminates always exits: its  *)
(* ITER_NEXT eventually takes the exit jump and the statements after the   *)
(* loop run, also when the body appends to the array or removes from it.   *)
(***************************************************************************)
C34_ArrayLoopExits ==
    program.template = "array_loop" =>
        <>(status = "halted" /\ printed # <<>>
           /\ printed[Len(printed)] = PyStr("after"))


(***************************************************************************)
(* C35.  In every iteration of `for x in ...` a read of x in the body of   *)
(* the loop yields the element that ITER_NEXT produced for the iteration,  *)
(* also when the loop stands in a function with a parameter named x: the   *)
(* loop over [10, 20] that prints x prints 10 and 20.                      *)
(***************************************************************************)
C35_LoopVariable ==
    (program.template = "loop_var" /\ status # "running") =>
        /\ status = "halted"
        /\ printed = <<PyInt(10), PyInt(20)>>


(***************************************************************************)
(* C36.  INDEX and INDEX_SET on an array of length n succeed only for the  *)
(* indices 0..n-1.  An index outside that range, every negative index      *)
(* included, never reads or overwrites an element but ends in an error:    *)
(* on the array [1, 2] of index and index_set, an index outside 0..1       *)
(* prints nothing, leaves the array as it was and ends the run in error.   *)
(***************************************************************************)
C36_IndexRange ==
    (/\ program.template \in {"index", "index_set"}
     /\ program.n \notin 0..1
     /\ heap # <<>>) =>
        /\ printed = <<>>
        /\ heap[1].items = <<PyInt(1), PyInt(2)>>
        /\ status # "halted"


(***************************************************************************)
(* C37.  After `const x = v` has executed, x keeps the value v for the     *)
(* rest of the program: the later assignment `x = w` of const is rejected  *)
(* and does not change the binding, so a run that has passed the           *)
(* declaration still binds x to v and never halts normally.                *)
(***************************************************************************)
C37_ConstKeepsValue ==
    (/\ program.template = "const"
     /\ program.op = "const"
     /\ "x" \in DOMAIN globals) =>
        /\ globals["x"] = PyInt(program.n)
        /\ status # "halted"


(***************************************************************************)
(* C38.  The REPL executes its buffer only when every block that the       *)
(* buffered lines opened has been closed: with nested blocks the buffer is *)
(* not executed at the first `end` but only after as many `end` lines as   *)
(* block-opening lines (`if x then`, `while x do`) have been read.         *)
(***************************************************************************)
OpeningLines == {Chars("if x then"), Chars("while x do")}

CountLines(buffer, set) == Cardinality({i \in 1..Len(buffer) : buffer[i] \in set})

C38_ReplNestedBlocks ==
    [][Len(repl'.executed) > Len(repl.executed) =>
         LET buffer == Append(repl.buffer, repl'.line)
         IN  CountLines(buffer, OpeningLines) <= CountLines(buffer, EndLines)]_vars


(***************************************************************************)
(* C39.  Within one REPL session the globals and functions that an         *)
(* executed entry defined remain defined for the entries executed after    *)
(* it: once the entry `x = 1` has been executed, an entry `print(x)`       *)
(* executed later prints 1.                                                *)
(***************************************************************************)
C39_ReplGlobalsPersist ==
    [][(/\ Len(repl'.executed) > Len(repl.executed)
        /\ repl'.executed[Len(repl'.executed)] = Chars("print(x)")
        /\ \E i \in 1..Len(repl.executed) : repl.executed[i] = Chars("x = 1")) =>
           printed' = Append(printed, PyInt(1))]_vars


(***************************************************************************)
(* C40.  tokenize terminates on every finite source: every next_token call *)
(* that does not return EOF consumes at least one character, the loop ends *)
(* (with the token list or with the exception read_number raised), and the *)
(* token list holds exactly one EOF token, as its last element; also for   *)
(* an unterminated block comment, an unterminated string and a backslash   *)
(* as the last character.                                                  *)
(***************************************************************************)
EOFs == {i \in 1..Len(tokens) : tokens[i].type = "EOF"}

C40_TokenizeTerminates ==
    /\ [][(status = "lexing" /\ tokens' # tokens
           /\ tokens'[Len(tokens')].type # "EOF") =>
              /\ lexer'.pos > lexer.pos
              /\ lexer'.pos <= Len(source) + 1]_vars
    /\ [](/\ EOFs \subseteq {Len(tokens)}
          /\ status = "lexing" => EOFs = {}
          /\ status = "parsing" => tokens # <<>> /\ EOFs = {Len(tokens)})
    /\ <>(status # "lexing")

C40_Witness ==
    /\ source = Chars("q \"\\")
    /\ status = "parsing"
    /\ lexer.pos = Len(source) + 1
    /\ Len(tokens) = 3
    /\ EOFs = {3}

C40_WitnessComment ==
    /\ source = Chars("a /* \n\n")
    /\ status = "parsing"
    /\ Len(tokens) = 2
    /\ EOFs = {2}

====
